---- MODULE Spec2Model ----
(***************************************************************************)
(* Verification model of the LearningCode memory allocators.              *)
(*                                                                         *)
(* Part A: the combined buddy + slab allocator behind kmalloc/kfree.      *)
(* The arena is scaled down: the source manages 2^15 pages of 4096 bytes   *)
(* with seven size classes 32..2048; the model keeps the same code paths   *)
(* over 2^(MAX_ORDER-1) pages of 2^PAGE_SHIFT bytes with the size classes  *)
(* slab_sizes.  Page pointers are page frame numbers, NIL is the null      *)
(* page pointer, addresses are integers and NULL is the null address.      *)
(***************************************************************************)
EXTENDS Integers, Sequences, FiniteSets, TLC

\* ------------------------------------------------------------ configuration
MAX_ORDER == 3
PAGE_SHIFT == 3
PAGE_SIZE == 2 ^ PAGE_SHIFT
MEM_SIZE == PAGE_SIZE * (2 ^ (MAX_ORDER - 1))
NUM_PAGES == MEM_SIZE \div PAGE_SIZE

PG_free == 1
PG_buddy == 2
PG_slab == 4

slab_sizes == <<2, 4>>
SLAB_INDEX_COUNT == Len(slab_sizes)

\* the address malloc() returned for the arena, and the null address
PHYS_MEM_START == 16
NULL == 0
\* the null struct page pointer
NIL == 0 - 1
\* what a member of the descriptor's union holds after the member that
\* overlays it (order / slab_cache) was written last
OVERLAID == 0 - 2
\* width of size_t in the model (the source: 64)
SIZE_BITS == 8
\* the caller holds at most MaxLive blocks at a time
MaxLive == 4
\* the caller makes at most MaxOps calls
MaxOps == 6

PFNs == 0 .. (NUM_PAGES - 1)
Orders == 0 .. (MAX_ORDER - 1)
Caches == 1 .. SLAB_INDEX_COUNT
\* the addresses at which an in-band link word can start
WordAddrs == {PHYS_MEM_START + (k * slab_sizes[1]) : k \in 0 .. ((MEM_SIZE \div slab_sizes[1]) - 1)}
\* the sizes the caller asks for
Sizes == {1, slab_sizes[1] + 1, PAGE_SIZE, PAGE_SIZE + 1, MEM_SIZE, MEM_SIZE + 1}

VARIABLES MEM_MAP, buddy_free_area, slab_caches, mem, live, freed, ops

\* Part B, the buddy-only allocator: the descriptors, the free lists (the
\* page_idx of each FreeNode, head first) and the addresses the caller holds
VARIABLES g_page_desc, g_free_area, held, calls

\* a call of kmalloc taken step by step: where the call is, its argument and
\* the local variable order
VARIABLES k_pc, k_size, k_order

\* the SLUB demo: the page descriptors, the static counter of alloc_pages,
\* the caches, the link words written into the arena, whether an access
\* outside the arena happened, the objects the caller holds and its calls
VARIABLES g_mem_map, allocated_pages, kmalloc_caches, slub_mem, slub_undefined,
          slub_live, slub_ops

\* the bitmap page allocator: the bitmap (the set of the indices of its 1 bits),
\* the allocations the caller holds and the number of its calls
VARIABLES g_bitmap, bm_held, bm_calls

\* the TLSF allocator: the control structure, the block headers written into
\* the pool (by address), whether the run left defined behaviour, the payload
\* addresses the caller holds and the number of its calls
VARIABLES tlsf_inst, tlsf_heap, tlsf_undefined, tlsf_live, tlsf_calls

\* two calls of __free_pages at the same time: the page descriptors and the free
\* lists they share, each call's position, its locals pfn, order and prev, the
\* value it read last, whether a call runs as one step, and the pages of the
\* blocks that stay allocated
VARIABLES fr_map, fr_area, fr_pc, fr_pfn, fr_order, fr_prev, fr_tmp, fr_atomic, fr_held

\* the cooperative scheduler: the two hardware words, the two thread contexts,
\* the statement main or its callee is at, the thread or word that statement
\* works on, the context and word the current call of thread_task was entered
\* with, and the lines printed so far
VARIABLES HARDWARE, t_ctx, sch_pc, sch_cur, sch_in, sch_out

varsA == <<MEM_MAP, buddy_free_area, slab_caches, mem, live, freed, ops>>
varsB == <<g_page_desc, g_free_area, held, calls>>
varsK == <<k_pc, k_size, k_order>>
varsS == <<g_mem_map, allocated_pages, kmalloc_caches, slub_mem, slub_undefined,
           slub_live, slub_ops>>
varsM == <<g_bitmap, bm_held, bm_calls>>
varsT == <<tlsf_inst, tlsf_heap, tlsf_undefined, tlsf_live, tlsf_calls>>
varsR == <<fr_map, fr_area, fr_pc, fr_pfn, fr_order, fr_prev, fr_tmp, fr_atomic, fr_held>>
varsX == <<HARDWARE, t_ctx, sch_pc, sch_cur, sch_in, sch_out>>
vars == <<varsA, varsB, varsK, varsS, varsM, varsT, varsR, varsX>>

\* what the operations of one part leave alone
notA == <<varsB, varsK, varsS, varsM, varsT, varsR, varsX>>
notB == <<varsA, varsK, varsS, varsM, varsT, varsR, varsX>>
notAK == <<varsB, varsS, varsM, varsT, varsR, varsX>>
notS == <<varsA, varsB, varsK, varsM, varsT, varsR, varsX>>
notM == <<varsA, varsB, varsK, varsS, varsT, varsR, varsX>>
notT == <<varsA, varsB, varsK, varsS, varsM, varsR, varsX>>
notR == <<varsA, varsB, varsK, varsS, varsM, varsT, varsX>>
notX == <<varsA, varsB, varsK, varsS, varsM, varsT, varsR>>

\* the allocator's state as one value, for the operators below
State == [map |-> MEM_MAP, area |-> buddy_free_area, caches |-> slab_caches, mem |-> mem]

\* ------------------------------------------------------------ bit arithmetic
\* flags & bit, for a single-bit mask
HasFlag(flags, bit) == (flags \div bit) % 2 = 1

RECURSIVE BitXor(_, _)
BitXor(a, b) ==
    IF a = 0 THEN b
    ELSE IF b = 0 THEN a
    ELSE (((a % 2) + (b % 2)) % 2) + (2 * BitXor(a \div 2, b \div 2))

RECURSIVE BitAnd(_, _)
BitAnd(a, b) ==
    IF a = 0 \/ b = 0 THEN 0
    ELSE ((a % 2) * (b % 2)) + (2 * BitAnd(a \div 2, b \div 2))

\* ------------------------------------------------------------ address translation
virt_to_page(addr) ==
    IF addr < PHYS_MEM_START \/ addr >= PHYS_MEM_START + MEM_SIZE
    THEN NIL
    ELSE (addr - PHYS_MEM_START) \div (2 ^ PAGE_SHIFT)

\* fault: the page frame number shifted by PAGE_SHIFT - 1
page_address_halfshift(pfn) == PHYS_MEM_START + (pfn * (2 ^ (PAGE_SHIFT - 1)))

page_address(pfn) == PHYS_MEM_START + (pfn * (2 ^ PAGE_SHIFT))

\* ------------------------------------------------------------ initial state
ZeroPage == [flags |-> 0, next |-> NIL, order |-> 0, slab_cache |-> NIL,
             freelist |-> NULL, active_objects |-> 0]

buddy_init_map ==
    [p \in PFNs |-> IF p = 0
                    THEN [ZeroPage EXCEPT !.flags = PG_free, !.order = MAX_ORDER - 1,
                                          !.slab_cache = OVERLAID, !.next = NIL]
                    ELSE ZeroPage]

buddy_init_area == [o \in Orders |-> IF o = MAX_ORDER - 1 THEN 0 ELSE NIL]

slab_init == [c \in Caches |-> [obj_size |-> slab_sizes[c], partial |-> NIL]]

\* the arena comes from malloc(): its content is not initialized
UNINIT == 0 - 3

InitA ==
    /\ MEM_MAP = buddy_init_map
    /\ buddy_free_area = buddy_init_area
    /\ slab_caches = slab_init
    /\ mem = [a \in WordAddrs |-> UNINIT]
    /\ live = {}
    /\ freed = {}
    /\ ops = 0

\* ------------------------------------------------------------ buddy system
\* fault: only the list of the order asked for is looked at
FirstFit_exact(area, cur) ==
    IF cur >= MAX_ORDER THEN MAX_ORDER
    ELSE IF area[cur] # NIL THEN cur
    ELSE MAX_ORDER

\* the scan of alloc_pages: the first order >= cur with a non-empty list,
\* MAX_ORDER when there is none
RECURSIVE FirstFit(_, _)
FirstFit(area, cur) ==
    IF cur >= MAX_ORDER THEN MAX_ORDER
    ELSE IF area[cur] # NIL THEN cur
    ELSE FirstFit(area, cur + 1)

\* fault: "buddy_free_area[cur_order] = buddy" left out, the split-off half is
\* flagged free but not linked
RECURSIVE SplitDown_unlinked(_, _, _, _, _)
SplitDown_unlinked(map, area, pfn, cur_order, order) ==
    IF cur_order > order
    THEN LET c == cur_order - 1
             buddy_pfn == pfn + (2 ^ c)
             map2 == [map EXCEPT ![buddy_pfn].flags = PG_free,
                                 ![buddy_pfn].order = c,
                                 ![buddy_pfn].slab_cache = OVERLAID,
                                 ![buddy_pfn].next = area[c]]
         IN  SplitDown_unlinked(map2, area, pfn, c, order)
    ELSE [map |-> map, area |-> area]

\* fault: "buddy->order" is written before "cur_order--", one order too high
RECURSIVE SplitDown_orderabove(_, _, _, _, _)
SplitDown_orderabove(map, area, pfn, cur_order, order) ==
    IF cur_order > order
    THEN LET c == cur_order - 1
             buddy_pfn == pfn + (2 ^ c)
             map2 == [map EXCEPT ![buddy_pfn].flags = PG_free,
                                 ![buddy_pfn].order = cur_order,
                                 ![buddy_pfn].slab_cache = OVERLAID,
                                 ![buddy_pfn].next = area[c]]
             area2 == [area EXCEPT ![c] = buddy_pfn]
         IN  SplitDown_orderabove(map2, area2, pfn, c, order)
    ELSE [map |-> map, area |-> area]

\* the split loop of alloc_pages
RECURSIVE SplitDown(_, _, _, _, _)
SplitDown(map, area, pfn, cur_order, order) ==
    IF cur_order > order
    THEN LET c == cur_order - 1
             buddy_pfn == pfn + (2 ^ c)
             map2 == [map EXCEPT ![buddy_pfn].flags = PG_free,
                                 ![buddy_pfn].order = c,
                                 ![buddy_pfn].slab_cache = OVERLAID,
                                 ![buddy_pfn].next = area[c]]
             area2 == [area EXCEPT ![c] = buddy_pfn]
         IN  SplitDown(map2, area2, pfn, c, order)
    ELSE [map |-> map, area |-> area]

\* alloc_pages once the scan stopped at order k
alloc_pages_take(S, order, k) ==
    IF k >= MAX_ORDER
    THEN [S |-> S, page |-> NIL]
    ELSE LET page == S.area[k]
             sp == SplitDown(S.map, [S.area EXCEPT ![k] = S.map[page].next], page, k, order)
         IN  [S |-> [S EXCEPT !.map = [sp.map EXCEPT ![page].flags = PG_buddy,
                                                     ![page].order = order,
                                                     ![page].slab_cache = OVERLAID,
                                                     ![page].next = NIL],
                              !.area = sp.area],
              page |-> page]

alloc_pages(S, order) == alloc_pages_take(S, order, FirstFit(S.area, order))

\* the scan "while (*prev && *prev != page) prev = &(*prev)->next;
\* if (*prev) *prev = page->next;" over a list that starts at head.
\* fuel bounds the walk; a list of the allocator holds each page once.
RECURSIVE UnlinkAfter(_, _, _, _)
UnlinkAfter(map, cur, target, fuel) ==
    IF fuel = 0 \/ map[cur].next = NIL THEN map
    ELSE IF map[cur].next = target
         THEN [map EXCEPT ![cur].next = map[target].next]
         ELSE UnlinkAfter(map, map[cur].next, target, fuel - 1)

\* fault: only the head of the list is compared with the page, the scan of
\* the rest is left out
ListUnlink_headonly(map, head, target) ==
    IF head = NIL THEN [map |-> map, head |-> head]
    ELSE IF head = target THEN [map |-> map, head |-> map[target].next]
    ELSE [map |-> map, head |-> head]

ListUnlink(map, head, target) ==
    IF head = NIL THEN [map |-> map, head |-> head]
    ELSE IF head = target THEN [map |-> map, head |-> map[target].next]
    ELSE [map |-> UnlinkAfter(map, head, target, NUM_PAGES), head |-> head]

\* fault: "if" in place of the "while" of __free_pages, one merge at most
MergeUpOnce(map, area, pfn, order) ==
    IF order < MAX_ORDER - 1
    THEN LET buddy_pfn == BitXor(pfn, 2 ^ order)
         IN  IF ~HasFlag(map[buddy_pfn].flags, PG_free) \/ map[buddy_pfn].order # order
             THEN [map |-> map, area |-> area, pfn |-> pfn, order |-> order]
             ELSE LET ul == ListUnlink(map, area[order], buddy_pfn)
                  IN  [map |-> ul.map, area |-> [area EXCEPT ![order] = ul.head],
                       pfn |-> BitAnd(pfn, buddy_pfn), order |-> order + 1]
    ELSE [map |-> map, area |-> area, pfn |-> pfn, order |-> order]

\* the merge loop of __free_pages
RECURSIVE MergeUp(_, _, _, _)
MergeUp(map, area, pfn, order) ==
    IF order < MAX_ORDER - 1
    THEN LET buddy_pfn == BitXor(pfn, 2 ^ order)
         IN  IF ~HasFlag(map[buddy_pfn].flags, PG_free) \/ map[buddy_pfn].order # order
             THEN [map |-> map, area |-> area, pfn |-> pfn, order |-> order]
             ELSE LET ul == ListUnlink(map, area[order], buddy_pfn)
                      combined_pfn == BitAnd(pfn, buddy_pfn)
                  IN  MergeUp(ul.map, [area EXCEPT ![order] = ul.head],
                              combined_pfn, order + 1)
    ELSE [map |-> map, area |-> area, pfn |-> pfn, order |-> order]

\* fault: "page->order = order" left out
free_pages_insert_keeps_order(S, m) ==
    [S EXCEPT !.map = [m.map EXCEPT ![m.pfn].flags = PG_free,
                                    ![m.pfn].next = m.area[m.order]],
              !.area = [m.area EXCEPT ![m.order] = m.pfn]]

\* the end of __free_pages: the merged block m goes to the head of its list
free_pages_insert(S, m) ==
    [S EXCEPT !.map = [m.map EXCEPT ![m.pfn].flags = PG_free,
                                    ![m.pfn].order = m.order,
                                    ![m.pfn].slab_cache = OVERLAID,
                                    ![m.pfn].next = m.area[m.order]],
              !.area = [m.area EXCEPT ![m.order] = m.pfn]]

free_pages(S, page, order) == free_pages_insert(S, MergeUp(S.map, S.area, page, order))

\* ------------------------------------------------------------ slab allocator
\* fault: the loop starts at "count - 2", the last slot is not linked
GrowLinks_shortchain(m, addr, obj_size, count) ==
    [a \in DOMAIN m |->
        IF a >= addr /\ a < addr + ((count - 1) * obj_size) /\ (a - addr) % obj_size = 0
        THEN IF a = addr + ((count - 2) * obj_size) THEN NULL ELSE a + obj_size
        ELSE m[a]]

\* the freelist loop of cache_grow: slot i links to slot i + 1, the last to NULL
GrowLinks(m, addr, obj_size, count) ==
    [a \in DOMAIN m |->
        IF a >= addr /\ a < addr + (count * obj_size) /\ (a - addr) % obj_size = 0
        THEN IF a = addr + ((count - 1) * obj_size) THEN NULL ELSE a + obj_size
        ELSE m[a]]

\* cache_grow once alloc_pages(0) returned r
cache_grow_page(S, c, r) ==
    IF r.page = NIL
    THEN [S |-> S, ok |-> FALSE]
    ELSE LET page == r.page
             addr == page_address(page)
             obj_size == S.caches[c].obj_size
             count == PAGE_SIZE \div obj_size
         IN  [S |-> [r.S EXCEPT !.map = [r.S.map EXCEPT
                                            ![page].flags = PG_slab,
                                            ![page].slab_cache = c,
                                            ![page].order = OVERLAID,
                                            ![page].active_objects = 0,
                                            ![page].freelist = IF count > 0 THEN addr ELSE NULL,
                                            ![page].next = S.caches[c].partial],
                                !.mem = GrowLinks(r.S.mem, addr, obj_size, count),
                                !.caches = [S.caches EXCEPT ![c].partial = page]],
              ok |-> TRUE]

cache_grow(S, c) == cache_grow_page(S, c, alloc_pages(S, 0))

\* fault: a page whose freelist became empty stays in the partial list
kmem_cache_alloc_pop_keeps_full(S, c, g) ==
    LET T == g.S
        page == T.caches[c].partial
        obj == T.map[page].freelist
    IN  IF ~g.ok THEN [S |-> S, obj |-> NULL, err |-> "oom"]
        ELSE IF obj = NULL THEN [S |-> T, obj |-> NULL, err |-> "null_freelist"]
        ELSE [S |-> [T EXCEPT !.map = [T.map EXCEPT ![page].freelist = T.mem[obj],
                                                    ![page].active_objects = @ + 1],
                              !.mem = [T.mem EXCEPT ![obj] = 0]],
              obj |-> obj, err |-> "none"]

\* kmem_cache_alloc after the partial list was looked at: g is the outcome
\* of cache_grow, or the state as it was when the list was not empty
kmem_cache_alloc_pop(S, c, g) ==
    LET T == g.S
        page == T.caches[c].partial
        obj == T.map[page].freelist
        nxt == T.mem[obj]
    IN  IF ~g.ok THEN [S |-> S, obj |-> NULL, err |-> "oom"]
        ELSE IF obj = NULL THEN [S |-> T, obj |-> NULL, err |-> "null_freelist"]
        ELSE [S |-> [T EXCEPT !.map = [T.map EXCEPT
                                          ![page].freelist = nxt,
                                          ![page].active_objects = @ + 1,
                                          ![page].next = IF nxt = NULL THEN NIL ELSE @],
                              !.caches = IF nxt = NULL
                                         THEN [T.caches EXCEPT ![c].partial = T.map[page].next]
                                         ELSE T.caches,
                              !.mem = [T.mem EXCEPT ![obj] = 0]],
              obj |-> obj, err |-> "none"]

\* fault: "memset(obj, 0, 8)" left out, the object leaves with its link word
kmem_cache_alloc_nozero(S, c) ==
    LET g == IF S.caches[c].partial = NIL
             THEN cache_grow(S, c)
             ELSE [S |-> S, ok |-> TRUE]
        r == kmem_cache_alloc_pop(S, c, g)
    IN  IF r.err = "none" THEN [r EXCEPT !.S.mem = g.S.mem] ELSE r

kmem_cache_alloc(S, c) ==
    kmem_cache_alloc_pop(S, c, IF S.caches[c].partial = NIL
                               THEN cache_grow(S, c)
                               ELSE [S |-> S, ok |-> TRUE])

\* fault: the emptied page leaves the partial list but "__free_pages(page, 0)"
\* is left out
kmem_cache_free_release_leak(T, c, page, ul) ==
    [T EXCEPT !.map = [ul.map EXCEPT ![page].flags = PG_buddy],
              !.caches = [T.caches EXCEPT ![c].partial = ul.head]]

\* the end of kmem_cache_free: a page without active objects leaves the
\* partial list and goes back to the buddy system
kmem_cache_free_release(T, c, page, ul) ==
    free_pages([T EXCEPT !.map = [ul.map EXCEPT ![page].flags = PG_buddy],
                         !.caches = [T.caches EXCEPT ![c].partial = ul.head]],
               page, 0)

\* fault: "active_objects == max_objs" in place of "max_objs - 1", so a page
\* that was full is not put back into the partial list
kmem_cache_free_slab_norelink(S, obj, page) ==
    LET c == S.map[page].slab_cache
        active == S.map[page].active_objects - 1
        T == [S EXCEPT !.mem = [S.mem EXCEPT ![obj] = S.map[page].freelist],
                       !.map = [S.map EXCEPT ![page].freelist = obj,
                                             ![page].active_objects = active]]
    IN  IF active = 0
        THEN kmem_cache_free_release(T, c, page, ListUnlink(T.map, T.caches[c].partial, page))
        ELSE T

\* kmem_cache_free past its entry test (the page is known and PG_slab)
kmem_cache_free_slab(S, obj, page) ==
    LET c == S.map[page].slab_cache
        active == S.map[page].active_objects - 1
        max_objs == PAGE_SIZE \div S.caches[c].obj_size
        relink == (active = max_objs - 1)
        T == [S EXCEPT !.mem = [S.mem EXCEPT ![obj] = S.map[page].freelist],
                       !.map = [S.map EXCEPT
                                   ![page].freelist = obj,
                                   ![page].active_objects = active,
                                   ![page].next = IF relink THEN S.caches[c].partial ELSE @],
                       !.caches = IF relink
                                  THEN [S.caches EXCEPT ![c].partial = page]
                                  ELSE S.caches]
    IN  IF active = 0
        THEN kmem_cache_free_release(T, c, page, ListUnlink(T.map, T.caches[c].partial, page))
        ELSE T

kmem_cache_free(S, obj) ==
    IF virt_to_page(obj) = NIL \/ ~HasFlag(S.map[virt_to_page(obj)].flags, PG_slab)
    THEN S
    ELSE kmem_cache_free_slab(S, obj, virt_to_page(obj))

\* ------------------------------------------------------------ facade
\* the loop "for (i = 0; i < SLAB_INDEX_COUNT; i++) if (size <= slab_sizes[i])":
\* the first class that fits, 0 when none does
\* fault: "size < slab_sizes[i]" in place of "<="
RECURSIVE SizeClass_strict(_, _)
SizeClass_strict(size, i) ==
    IF i > SLAB_INDEX_COUNT THEN 0
    ELSE IF size < slab_sizes[i] THEN i
    ELSE SizeClass_strict(size, i + 1)

RECURSIVE SizeClass(_, _)
SizeClass(size, i) ==
    IF i > SLAB_INDEX_COUNT THEN 0
    ELSE IF size <= slab_sizes[i] THEN i
    ELSE SizeClass(size, i + 1)

\* the loop "while ((PAGE_SIZE << order) < size) order++", the shift taken
\* modulo 2^SIZE_BITS.  A shift count of SIZE_BITS or more is undefined: the
\* walk stops there and yields SIZE_BITS, which kmalloc_buddy reports as
\* "undefined"
RECURSIVE BuddyOrder(_, _)
BuddyOrder(size, order) ==
    IF order >= SIZE_BITS THEN SIZE_BITS
    ELSE IF ((PAGE_SIZE * (2 ^ order)) % (2 ^ SIZE_BITS)) < size
         THEN BuddyOrder(size, order + 1)
         ELSE order

\* what kmalloc returns for the outcome a of kmem_cache_alloc on cache c
kmalloc_slab(c, a) ==
    [S |-> a.S, ret |-> a.obj, cache |-> c, order |-> 0, err |-> a.err]

\* what kmalloc returns for the outcome r of alloc_pages(order).
\* err "undefined": the order loop reached an undefined shift, the call has
\* no defined outcome (ret and S are then placeholders)
kmalloc_buddy(S, order, r) ==
    IF order >= SIZE_BITS
    THEN [S |-> S, ret |-> NULL, cache |-> 0, order |-> order, err |-> "undefined"]
    ELSE IF r.page = NIL
    THEN [S |-> S, ret |-> NULL, cache |-> 0, order |-> order, err |-> "oom"]
    ELSE [S |-> r.S, ret |-> page_address(r.page), cache |-> 0, order |-> order,
          err |-> "none"]

kmalloc(S, size) ==
    IF SizeClass(size, 1) # 0
    THEN kmalloc_slab(SizeClass(size, 1), kmem_cache_alloc(S, SizeClass(size, 1)))
    ELSE kmalloc_buddy(S, BuddyOrder(size, 0), alloc_pages(S, BuddyOrder(size, 0)))

\* fault: the report of an address outside the arena is left out
kfree_page_silent(S, ptr, page) ==
    IF page = NIL THEN [S |-> S, err |-> "none"]
    ELSE IF HasFlag(S.map[page].flags, PG_slab)
         THEN [S |-> kmem_cache_free(S, ptr), err |-> "none"]
    ELSE IF HasFlag(S.map[page].flags, PG_buddy)
         THEN IF S.map[page].order = OVERLAID
              THEN [S |-> S, err |-> "undefined"]
              ELSE [S |-> free_pages(S, page, S.map[page].order), err |-> "none"]
    ELSE [S |-> S, err |-> "double_free"]

\* kfree once virt_to_page returned page.
\* err: "none", "invalid_address" and "double_free" (the two messages kfree
\* prints), or "undefined" when kfree passes on an order read from a union
\* whose slab members were written last
kfree_page(S, ptr, page) ==
    IF page = NIL THEN [S |-> S, err |-> "invalid_address"]
    ELSE IF HasFlag(S.map[page].flags, PG_slab)
         THEN [S |-> kmem_cache_free(S, ptr), err |-> "none"]
    ELSE IF HasFlag(S.map[page].flags, PG_buddy)
         THEN IF S.map[page].order = OVERLAID
              THEN [S |-> S, err |-> "undefined"]
              ELSE [S |-> free_pages(S, page, S.map[page].order), err |-> "none"]
    ELSE [S |-> S, err |-> "double_free"]

kfree(S, ptr) ==
    IF ptr = NULL THEN [S |-> S, err |-> "none"] ELSE kfree_page(S, ptr, virt_to_page(ptr))

\* ------------------------------------------------------------ the caller
Install(S) ==
    /\ MEM_MAP' = S.map
    /\ buddy_free_area' = S.area
    /\ slab_caches' = S.caches
    /\ mem' = S.mem

\* the caller keeps the block kmalloc returned in r
Keep(r) ==
    /\ Install(r.S)
    /\ IF r.ret # NULL
       THEN /\ live' = live \cup {[addr |-> r.ret, cache |-> r.cache, order |-> r.order]}
            /\ freed' = {}
       ELSE UNCHANGED <<live, freed>>

\* a call of kmalloc
Kmalloc(size) ==
    /\ UNCHANGED notA
    /\ Cardinality(live) < MaxLive
    /\ ops < MaxOps
    /\ ops' = ops + 1
    /\ Keep(kmalloc(State, size))

\* a call of kfree on a block the caller holds
Kfree(b) ==
    /\ UNCHANGED notA
    /\ b \in live
    /\ ops < MaxOps
    /\ ops' = ops + 1
    /\ Install(kfree(State, b.addr).S)
    /\ live' = live \ {b}
    /\ freed' = freed \cup {b}

\* ------------------------------------------------------------ Part B
\* The buddy-only allocator (buddy_alloc / buddy_free over 2 MiB pages).

HEAP_SIZE == 128 * 1024 * 1024
MIN_PAGE_SIZE == 2 * 1024 * 1024
\* MAX_ORDER of the buddy-only allocator: the top order itself
MAX_ORDER_B == 6
g_total_pages == HEAP_SIZE \div MIN_PAGE_SIZE
\* the address malloc() returned for the heap
g_heap_base == 4096
\* the caller holds at most MaxHeld blocks and makes at most MaxCalls calls
MaxHeld == 5
MaxCalls == 10

MiB == 1024 * 1024
RequestSizes == {1 * MiB, 3 * MiB, 7 * MiB, 60 * MiB, 128 * MiB, 129 * MiB}

buddy_init_desc ==
    [i \in 0 .. (g_total_pages - 1) |->
        IF i = 0 THEN [is_free |-> TRUE, order |-> MAX_ORDER_B]
        ELSE [is_free |-> FALSE, order |-> 0]]

buddy_init_free_area == [o \in 0 .. MAX_ORDER_B |-> IF o = MAX_ORDER_B THEN <<0>> ELSE <<>>]

InitB ==
    /\ g_page_desc = buddy_init_desc
    /\ g_free_area = buddy_init_free_area
    /\ held = {}
    /\ calls = 0

GState == [desc |-> g_page_desc, area |-> g_free_area]

list_add(area, order, idx) == [area EXCEPT ![order] = <<idx>> \o @]

\* list_remove of the first node that holds idx (the scan of buddy_free)
RECURSIVE RemoveFirst(_, _)
RemoveFirst(seq, idx) ==
    IF seq = <<>> THEN <<>>
    ELSE IF Head(seq) = idx THEN Tail(seq)
    ELSE <<Head(seq)>> \o RemoveFirst(Tail(seq), idx)

RECURSIVE OrderLoop(_, _)
OrderLoop(num_pages, order) ==
    IF (2 ^ order) < num_pages THEN OrderLoop(num_pages, order + 1) ELSE order

get_needed_order(size) ==
    IF size <= MIN_PAGE_SIZE THEN 0
    ELSE OrderLoop((size + MIN_PAGE_SIZE - 1) \div MIN_PAGE_SIZE, 0)

\* the scan "while (current_order <= MAX_ORDER && g_free_area[current_order] == NULL)"
RECURSIVE FindBlock(_, _)
FindBlock(area, current_order) ==
    IF current_order <= MAX_ORDER_B /\ area[current_order] = <<>>
    THEN FindBlock(area, current_order + 1)
    ELSE current_order

\* the split loop of buddy_alloc
RECURSIVE SplitBlock(_, _, _, _)
SplitBlock(G, page_idx, current_order, target_order) ==
    IF current_order > target_order
    THEN LET c == current_order - 1
             buddy_idx == page_idx + (2 ^ c)
         IN  SplitBlock([desc |-> [G.desc EXCEPT ![buddy_idx] = [is_free |-> TRUE, order |-> c]],
                         area |-> list_add(G.area, c, buddy_idx)],
                        page_idx, c, target_order)
    ELSE G

\* buddy_alloc once the scan stopped at current_order
buddy_alloc_take(G, target_order, current_order) ==
    IF target_order > MAX_ORDER_B \/ current_order > MAX_ORDER_B
    THEN [G |-> G, ret |-> NULL]
    ELSE LET block == Head(G.area[current_order])
             G2 == SplitBlock([G EXCEPT !.area[current_order] = Tail(@)],
                              block, current_order, target_order)
         IN  [G |-> [G2 EXCEPT !.desc[block] = [is_free |-> FALSE, order |-> target_order]],
              ret |-> g_heap_base + (block * MIN_PAGE_SIZE)]

buddy_alloc(G, size) ==
    buddy_alloc_take(G, get_needed_order(size),
                     IF get_needed_order(size) > MAX_ORDER_B
                     THEN MAX_ORDER_B + 1
                     ELSE FindBlock(G.area, get_needed_order(size)))

\* fault: "if" in place of the "while" of buddy_free, one merge at most
MergeLoopOnce(G, page_idx, order) ==
    IF order < MAX_ORDER_B
    THEN LET buddy_idx == BitXor(page_idx, 2 ^ order)
         IN  IF buddy_idx >= g_total_pages
             THEN [G |-> G, page_idx |-> page_idx, order |-> order]
             ELSE IF ~G.desc[buddy_idx].is_free \/ G.desc[buddy_idx].order # order
             THEN [G |-> G, page_idx |-> page_idx, order |-> order]
             ELSE [G |-> [G EXCEPT !.area[order] = RemoveFirst(@, buddy_idx)],
                   page_idx |-> IF buddy_idx < page_idx THEN buddy_idx ELSE page_idx,
                   order |-> order + 1]
    ELSE [G |-> G, page_idx |-> page_idx, order |-> order]

\* the merge loop of buddy_free
RECURSIVE MergeLoop(_, _, _)
MergeLoop(G, page_idx, order) ==
    IF order < MAX_ORDER_B
    THEN LET buddy_idx == BitXor(page_idx, 2 ^ order)
         IN  IF buddy_idx >= g_total_pages
             THEN [G |-> G, page_idx |-> page_idx, order |-> order]
             ELSE IF ~G.desc[buddy_idx].is_free \/ G.desc[buddy_idx].order # order
             THEN [G |-> G, page_idx |-> page_idx, order |-> order]
             ELSE MergeLoop([G EXCEPT !.area[order] = RemoveFirst(@, buddy_idx)],
                            IF buddy_idx < page_idx THEN buddy_idx ELSE page_idx,
                            order + 1)
    ELSE [G |-> G, page_idx |-> page_idx, order |-> order]

\* the end of buddy_free: the merged block m goes to the head of its list
buddy_free_insert(m) ==
    [desc |-> [m.G.desc EXCEPT ![m.page_idx] = [is_free |-> TRUE, order |-> m.order]],
     area |-> list_add(m.G.area, m.order, m.page_idx)]

buddy_free(G, ptr) ==
    IF ptr = NULL THEN G
    ELSE buddy_free_insert(MergeLoop(G, (ptr - g_heap_base) \div MIN_PAGE_SIZE,
                                     G.desc[(ptr - g_heap_base) \div MIN_PAGE_SIZE].order))

\* the caller keeps the block buddy_alloc returned in r
Hold(r) ==
    /\ g_page_desc' = r.G.desc
    /\ g_free_area' = r.G.area
    /\ held' = IF r.ret # NULL THEN held \cup {r.ret} ELSE held

BuddyAlloc(size) ==
    /\ UNCHANGED notB
    /\ Cardinality(held) < MaxHeld
    /\ calls < MaxCalls
    /\ calls' = calls + 1
    /\ Hold(buddy_alloc(GState, size))

InstallB(G) ==
    /\ g_page_desc' = G.desc
    /\ g_free_area' = G.area

BuddyFree(ptr) ==
    /\ UNCHANGED notB
    /\ ptr \in held
    /\ calls < MaxCalls
    /\ calls' = calls + 1
    /\ InstallB(buddy_free(GState, ptr))
    /\ held' = held \ {ptr}

NextB ==
    \/ \E size \in RequestSizes : BuddyAlloc(size)
    \/ \E ptr \in held : BuddyFree(ptr)

\* ------------------------------------------------------------ kmalloc, step by step
\* The buddy path of kmalloc with its order loop taken one test at a time.
\* k_pc: "idle" (no call), "order_loop", "alloc_pages" (the loop was left).

\* the caller makes at most KMaxCalls calls
KMaxCalls == 2
\* the greatest value of the int order in the model (the source: 2^31 - 1)
ORDER_MAX == 15
\* every value of size_t
KSizes == 0 .. ((2 ^ SIZE_BITS) - 1)

InitK ==
    /\ k_pc = "idle"
    /\ k_size = 0
    /\ k_order = 0

\* kmalloc(size) with a size some class fits: the call returns from the loop
\* over the classes
KmallocSlab(size) ==
    /\ UNCHANGED notAK
    /\ k_pc = "idle"
    /\ ops < KMaxCalls
    /\ Cardinality(live) < MaxLive
    /\ SizeClass(size, 1) # 0
    /\ ops' = ops + 1
    /\ Keep(kmalloc(State, size))
    /\ k_size' = size
    /\ UNCHANGED <<k_pc, k_order>>

\* kmalloc(size) past the loop over the classes: "int order = 0"
KmallocBuddy(size) ==
    /\ UNCHANGED <<varsA, notAK>>
    /\ k_pc = "idle"
    /\ ops < KMaxCalls
    /\ Cardinality(live) < MaxLive
    /\ SizeClass(size, 1) = 0
    /\ k_pc' = "order_loop"
    /\ k_size' = size
    /\ k_order' = 0

\* one test of "while ((PAGE_SIZE << order) < size) order++" with a shift
\* count below the width of unsigned long
KmallocOrderTest ==
    /\ UNCHANGED <<varsA, notAK>>
    /\ k_pc = "order_loop"
    /\ k_order >= 0 /\ k_order < SIZE_BITS
    /\ IF ((PAGE_SIZE * (2 ^ k_order)) % (2 ^ SIZE_BITS)) < k_size
       THEN k_order' = k_order + 1 /\ UNCHANGED <<k_pc, k_size>>
       ELSE k_pc' = "alloc_pages" /\ UNCHANGED <<k_size, k_order>>

\* the test with a shift count outside 0 .. SIZE_BITS-1: the shift is
\* undefined.  It yields the page size shifted by the count modulo SIZE_BITS
\* (the shift instructions of x86-64 and AArch64) or 0 (all bits shifted out).
\* "order++" past ORDER_MAX wraps to the least int, as the two's complement
\* add of the builds does.
KmallocOrderUndefined ==
    /\ UNCHANGED <<varsA, notAK>>
    /\ k_pc = "order_loop"
    /\ (k_order >= SIZE_BITS \/ k_order < 0)
    /\ \E shifted \in {0, (PAGE_SIZE * (2 ^ (k_order % SIZE_BITS))) % (2 ^ SIZE_BITS)} :
          IF shifted < k_size
          THEN /\ k_order' = IF k_order = ORDER_MAX THEN 0 - (ORDER_MAX + 1) ELSE k_order + 1
               /\ UNCHANGED <<k_pc, k_size>>
          ELSE k_pc' = "alloc_pages" /\ UNCHANGED <<k_size, k_order>>

\* "page = alloc_pages(order); if (!page) return NULL; return page_address(page)"
KmallocAllocPages ==
    /\ UNCHANGED notAK
    /\ k_pc = "alloc_pages"
    /\ ops' = ops + 1
    /\ Keep(kmalloc_buddy(State, k_order, alloc_pages(State, k_order)))
    /\ k_pc' = "idle"
    /\ UNCHANGED <<k_size, k_order>>

NextK ==
    \/ \E size \in KSizes : KmallocSlab(size)
    \/ \E size \in KSizes : KmallocBuddy(size)
    \/ KmallocOrderTest
    \/ KmallocOrderUndefined
    \/ KmallocAllocPages

\* ------------------------------------------------------------ the SLUB demo
\* kmalloc / kfree over the caches kmalloc-8 .. kmalloc-1024 (src/mem/slub.c).
\* Pages and caches are named by page frame number and by cache index; the
\* arena is scaled down to SLUB_PAGES pages (the source: 4096).

SLUB_PAGE_SIZE == 4096
SLUB_PAGES == 2
KMALLOC_SHIFT_LOW == 3
KMALLOC_SHIFT_HIGH == 10
\* the address malloc() returned for the arena
g_phys_mem_base == 8208
\* the caller holds at most SlubMaxLive objects and makes at most SlubMaxOps calls
SlubMaxLive == 5
SlubMaxOps == 7
\* what the caller writes into an object it holds
USER_DATA == 0 - 4

SlubPFNs == 0 .. (SLUB_PAGES - 1)
SlubCaches == KMALLOC_SHIFT_LOW .. KMALLOC_SHIFT_HIGH
\* the sizes the caller asks for
SlubSizes == {20, 50, 200, 2000}

\* the demo's state as one value
SlubState == [map |-> g_mem_map, allocated_pages |-> allocated_pages,
              caches |-> kmalloc_caches, mem |-> slub_mem, undefined |-> slub_undefined]

kmem_cache_init_map ==
    [p \in SlubPFNs |-> [freelist |-> NULL, inuse |-> 0, objects |-> 0,
                         next |-> NIL, slab_cache |-> 0]]

kmem_cache_init_caches ==
    [i \in SlubCaches |-> [size |-> 2 ^ i, offset |-> 0, cpu_slab |-> NIL, partial |-> NIL]]

InitS ==
    /\ g_mem_map = kmem_cache_init_map
    /\ allocated_pages = 0
    /\ kmalloc_caches = kmem_cache_init_caches
    /\ slub_mem = <<>>
    /\ slub_undefined = FALSE
    /\ slub_live = {}
    /\ slub_ops = 0

\* virt_to_page of the demo: no range test
slub_virt_to_page(addr) == (addr - g_phys_mem_base) \div SLUB_PAGE_SIZE

\* the address alloc_pages hands out when its counter is n
slub_alloc_pages(n) == g_phys_mem_base + (n * SLUB_PAGE_SIZE)

\* the link words setup_slab writes: object k of count points to object k + 1,
\* the last one to NULL
SlabLinks(m, start, size, count) ==
    LET objs == {start + (k * size) : k \in 0 .. (count - 1)}
    IN  [a \in (DOMAIN m) \cup objs |->
            IF a \in objs
            THEN IF a = start + ((count - 1) * size) THEN NULL ELSE a + size
            ELSE m[a]]

setup_slab(S, s, page) ==
    LET start == g_phys_mem_base + (page * SLUB_PAGE_SIZE)
        objects == SLUB_PAGE_SIZE \div S.caches[s].size
    IN  [S EXCEPT !.map = [S.map EXCEPT ![page].objects = objects,
                                        ![page].inuse = 0,
                                        ![page].slab_cache = s,
                                        ![page].freelist = start],
                  !.mem = SlabLinks(S.mem, start, S.caches[s].size, objects)]

\* the slow path of kmem_cache_alloc: a new page becomes the cpu_slab.  A page
\* past the end of the arena has no descriptor: the access is undefined.
slub_new_slab(S, s) ==
    IF S.allocated_pages >= SLUB_PAGES
    THEN [S EXCEPT !.undefined = TRUE]
    ELSE LET new_page == slub_virt_to_page(slub_alloc_pages(S.allocated_pages))
             T == setup_slab([S EXCEPT !.allocated_pages = @ + 1], s, new_page)
         IN  [T EXCEPT !.caches = [T.caches EXCEPT ![s].cpu_slab = new_page]]

\* the state in which kmem_cache_alloc takes its fast path
slub_refill(S, s) ==
    IF S.caches[s].cpu_slab # NIL /\ S.map[S.caches[s].cpu_slab].freelist # NULL
    THEN S
    ELSE slub_new_slab(S, s)

\* the fast path of kmem_cache_alloc
slub_fast_path(T, s) ==
    IF T.undefined
    THEN [S |-> T, obj |-> NULL]
    ELSE LET page == T.caches[s].cpu_slab
             object == T.map[page].freelist
             next_object == T.mem[object]
         IN  [S |-> [T EXCEPT !.map = [T.map EXCEPT ![page].freelist = next_object,
                                                    ![page].inuse = @ + 1]],
              obj |-> object]

slub_kmem_cache_alloc(S, s) == slub_fast_path(slub_refill(S, s), s)

\* fault: the freed object is linked behind the head, the head stays
slub_kmem_cache_free_page_behind(S, obj, page) ==
    IF S.map[page].freelist = NULL
    THEN [S EXCEPT !.mem = [S.mem EXCEPT ![obj] = NULL],
                   !.map = [S.map EXCEPT ![page].freelist = obj, ![page].inuse = @ - 1]]
    ELSE [S EXCEPT !.mem = [S.mem EXCEPT ![obj] = S.mem[S.map[page].freelist],
                                         ![S.map[page].freelist] = obj],
                   !.map = [S.map EXCEPT ![page].inuse = @ - 1]]

\* kmem_cache_free once virt_to_page returned page
slub_kmem_cache_free_page(S, obj, page) ==
    [S EXCEPT !.mem = [S.mem EXCEPT ![obj] = S.map[page].freelist],
              !.map = [S.map EXCEPT ![page].freelist = obj,
                                    ![page].inuse = @ - 1]]

slub_kmem_cache_free(S, obj) == slub_kmem_cache_free_page(S, obj, slub_virt_to_page(obj))

\* the if-chain of kmalloc
kmalloc_index(size) ==
    IF size <= 8 THEN 3
    ELSE IF size <= 16 THEN 4
    ELSE IF size <= 32 THEN 5
    ELSE IF size <= 64 THEN 6
    ELSE IF size <= 128 THEN 7
    ELSE 10

slub_kmalloc(S, size) == slub_kmem_cache_alloc(S, kmalloc_index(size))

slub_kfree(S, obj) == slub_kmem_cache_free(S, obj)

SlubInstall(S) ==
    /\ g_mem_map' = S.map
    /\ allocated_pages' = S.allocated_pages
    /\ kmalloc_caches' = S.caches
    /\ slub_mem' = S.mem
    /\ slub_undefined' = S.undefined

\* the caller keeps the object kmalloc(size) returned in r
SlubKeep(r, size) ==
    /\ SlubInstall(r.S)
    /\ slub_live' = IF r.obj # NULL
                    THEN slub_live \cup {[addr |-> r.obj, index |-> kmalloc_index(size)]}
                    ELSE slub_live

\* a call of kmalloc
SlubKmalloc(size) ==
    /\ UNCHANGED notS
    /\ ~slub_undefined
    /\ Cardinality(slub_live) < SlubMaxLive
    /\ slub_ops < SlubMaxOps
    /\ slub_ops' = slub_ops + 1
    /\ SlubKeep(slub_kmalloc(SlubState, size), size)

\* the caller writes into an object it holds
SlubWrite(b) ==
    /\ UNCHANGED notS
    /\ ~slub_undefined
    /\ b \in slub_live
    /\ slub_ops < SlubMaxOps
    /\ slub_mem[b.addr] # USER_DATA
    /\ slub_ops' = slub_ops + 1
    /\ slub_mem' = [slub_mem EXCEPT ![b.addr] = USER_DATA]
    /\ UNCHANGED <<g_mem_map, allocated_pages, kmalloc_caches, slub_undefined, slub_live>>

\* a call of kfree on an object the caller holds
SlubKfree(b) ==
    /\ UNCHANGED notS
    /\ ~slub_undefined
    /\ b \in slub_live
    /\ slub_ops < SlubMaxOps
    /\ slub_ops' = slub_ops + 1
    /\ SlubInstall(slub_kfree(SlubState, b.addr))
    /\ slub_live' = slub_live \ {b}

NextS ==
    \/ \E size \in SlubSizes : SlubKmalloc(size)
    \/ \E b \in slub_live : SlubWrite(b)
    \/ \E b \in slub_live : SlubKfree(b)

\* ------------------------------------------------------------ the bitmap page allocator
\* bitmap_alloc / bitmap_free over one 64-bit word, one bit per 2 MiB page
\* (src/mem/slub.c, second program).  A uint64_t is the set of the indices of
\* its 1 bits.

BITMAP_MEM_SIZE == 128 * 1024 * 1024
BITMAP_PAGE_SIZE == 2 * 1024 * 1024
PAGE_COUNT == BITMAP_MEM_SIZE \div BITMAP_PAGE_SIZE
\* the width of uint64_t
WORD_BITS == 64
\* the address malloc() returned for the arena
g_phys_base == 4096
\* the caller holds at most BmMaxHeld allocations and makes at most BmMaxCalls calls
BmMaxHeld == 4
BmMaxCalls == 6
\* the page counts the caller asks for
BitmapRequests == {0, 1, 2, 3, 60, 64, 65}

\* w >> i, w << i, ~w on a uint64_t
ShiftRight(w, i) == {b - i : b \in {x \in w : x >= i}}
ShiftLeft(w, i) == {b + i : b \in {x \in w : x + i < WORD_BITS}}
WordNot(w) == (0 .. (WORD_BITS - 1)) \ w

\* "(num_pages == 64) ? ~0ULL : ((1ULL << num_pages) - 1)"
PageMask(num_pages) ==
    IF num_pages = 64 THEN WordNot({}) ELSE 0 .. (num_pages - 1)

InitM ==
    /\ g_bitmap = {}
    /\ bm_held = {}
    /\ bm_calls = 0

\* fault: "i < PAGE_COUNT - num_pages", the last window is not looked at
RECURSIVE bitmap_scan_short(_, _, _, _)
bitmap_scan_short(bitmap, num_pages, mask, i) ==
    IF i >= PAGE_COUNT - num_pages
    THEN [bitmap |-> bitmap, ret |-> NULL]
    ELSE IF ShiftRight(bitmap, i) \cap mask = {}
         THEN [bitmap |-> bitmap \cup ShiftLeft(mask, i),
               ret |-> g_phys_base + (i * BITMAP_PAGE_SIZE)]
         ELSE bitmap_scan_short(bitmap, num_pages, mask, i + 1)

\* the sliding window of bitmap_alloc, from index i on
RECURSIVE bitmap_scan(_, _, _, _)
bitmap_scan(bitmap, num_pages, mask, i) ==
    IF i > PAGE_COUNT - num_pages
    THEN [bitmap |-> bitmap, ret |-> NULL]
    ELSE IF ShiftRight(bitmap, i) \cap mask = {}
         THEN [bitmap |-> bitmap \cup ShiftLeft(mask, i),
               ret |-> g_phys_base + (i * BITMAP_PAGE_SIZE)]
         ELSE bitmap_scan(bitmap, num_pages, mask, i + 1)

bitmap_alloc(bitmap, num_pages) ==
    IF num_pages <= 0 \/ num_pages > PAGE_COUNT
    THEN [bitmap |-> bitmap, ret |-> NULL]
    ELSE bitmap_scan(bitmap, num_pages, PageMask(num_pages), 0)

\* fault: the mask is not shifted to the index before it is cleared
bitmap_free_index_unshifted(bitmap, num_pages, index) ==
    IF index < 0 \/ index + num_pages > PAGE_COUNT
    THEN bitmap
    ELSE bitmap \cap WordNot(PageMask(num_pages))

\* bitmap_free once the page index is computed
bitmap_free_index(bitmap, num_pages, index) ==
    IF index < 0 \/ index + num_pages > PAGE_COUNT
    THEN bitmap
    ELSE bitmap \cap WordNot(ShiftLeft(PageMask(num_pages), index))

\* ptr is NULL or an address from g_phys_base on
bitmap_free(bitmap, ptr, num_pages) ==
    IF ptr = NULL \/ num_pages <= 0
    THEN bitmap
    ELSE bitmap_free_index(bitmap, num_pages, (ptr - g_phys_base) \div BITMAP_PAGE_SIZE)

\* the caller keeps the pointer bitmap_alloc returned in r, with its page count
BitmapKeep(r, num_pages) ==
    /\ g_bitmap' = r.bitmap
    /\ bm_held' = IF r.ret # NULL
                  THEN bm_held \cup {[ptr |-> r.ret, num_pages |-> num_pages]}
                  ELSE bm_held

BitmapAlloc(num_pages) ==
    /\ UNCHANGED notM
    /\ Cardinality(bm_held) < BmMaxHeld
    /\ bm_calls < BmMaxCalls
    /\ bm_calls' = bm_calls + 1
    /\ BitmapKeep(bitmap_alloc(g_bitmap, num_pages), num_pages)

\* bitmap_free of an allocation the caller holds, with its page count
BitmapFree(h) ==
    /\ UNCHANGED notM
    /\ h \in bm_held
    /\ bm_calls < BmMaxCalls
    /\ bm_calls' = bm_calls + 1
    /\ g_bitmap' = bitmap_free(g_bitmap, h.ptr, h.num_pages)
    /\ bm_held' = bm_held \ {h}

NextM ==
    \/ \E num_pages \in BitmapRequests : BitmapAlloc(num_pages)
    \/ \E h \in bm_held : BitmapFree(h)

\* ------------------------------------------------------------ the TLSF allocator
\* tlsf_malloc / tlsf_free over one pool (src/unnamed/part_002).  Block
\* pointers are addresses, NULL is the null pointer; a bitmap is the set of
\* the indices of its 1 bits.  A size_t below 0 stands for 2^64 plus that
\* value, the result of an unsigned subtraction that wrapped around.

TLSF_MEM_SIZE == 128 * 1024 * 1024
FL_INDEX_MAX == 32
SL_INDEX_COUNT == 4
SL_INDEX_SHIFT == 2
BLOCK_FREE == 1
BLOCK_USED == 0
\* sizeof(block_header_t): a pointer, a size_t, an int padded to 8 bytes and
\* two pointers
HEADER_SIZE == 40
\* the address malloc() returned for the pool, and the first address after it
heap_start == 65536
heap_end == heap_start + TLSF_MEM_SIZE
\* the caller holds at most TlsfMaxLive blocks and makes at most TlsfMaxCalls calls
TlsfMaxLive == 3
TlsfMaxCalls == 6
\* the sizes the caller asks for, multiples of 8 as the headers are accessed
\* through struct pointers
TlsfSizes == {24, 32, 56, 2 * 1024 * 1024, TLSF_MEM_SIZE - HEADER_SIZE, 2 * TLSF_MEM_SIZE}

FlIndexes == 0 .. (FL_INDEX_MAX - 1)
SlIndexes == 0 .. (SL_INDEX_COUNT - 1)

\* the allocator's state as one value, for the operators below
TlsfState == [inst |-> tlsf_inst, heap |-> tlsf_heap, undefined |-> tlsf_undefined]

\* the bytes of the pool where no header was written yet
BlankHeader == [phys_prev |-> UNINIT, size |-> UNINIT, free_flag |-> UNINIT,
                prev_free |-> UNINIT, next_free |-> UNINIT]

\* the header read at address b
HeaderAt(heap, b) == IF b \in DOMAIN heap THEN heap[b] ELSE BlankHeader

\* the pool after the header at address b was written
Poke(heap, b, header) == (b :> header) @@ heap

RECURSIVE Log2(_)
Log2(n) == IF n <= 1 THEN 0 ELSE 1 + Log2(n \div 2)

\* "31 - __builtin_clz(size)" on the low 32 bits of size; these have bit 31
\* set when size wrapped around
tlsf_fls(size) ==
    IF size = 0 THEN 0 - 1
    ELSE IF size < 0 THEN 31
    ELSE Log2(size)

\* the lowest 1 bit of a bitmap word
tlsf_ffs(word) ==
    IF word = {} THEN 0 - 1
    ELSE CHOOSE b \in word : \A c \in word : b <= c

\* what a shift by a negative count leaves in sl: no index of the matrix
SL_UNDEFINED == 0 - 64

\* "(size >> (fl - SL_INDEX_SHIFT)) ^ (1 << SL_INDEX_SHIFT)", converted to
\* int; a size that wrapped around has every bit from 29 on set, which makes
\* the int ~(1 << SL_INDEX_SHIFT)
mapping_insert(size) ==
    [fl |-> tlsf_fls(size),
     sl |-> IF tlsf_fls(size) < SL_INDEX_SHIFT THEN SL_UNDEFINED
            ELSE IF size < 0 THEN (0 - 1) - (2 ^ SL_INDEX_SHIFT)
            ELSE BitXor(size \div (2 ^ (tlsf_fls(size) - SL_INDEX_SHIFT)),
                        2 ^ SL_INDEX_SHIFT)]

\* blocks[fl][sl] is an element of the matrix
InMatrix(m) == m.fl \in FlIndexes /\ m.sl \in SlIndexes

\* insert_free_block once fl and sl are computed, head is blocks[fl][sl]
insert_free_block_at(T, block, fl, sl, head) ==
    [T EXCEPT
       !.heap = Poke(IF head # NULL
                     THEN Poke(T.heap, head, [HeaderAt(T.heap, head) EXCEPT !.prev_free = block])
                     ELSE T.heap,
                     block,
                     [HeaderAt(T.heap, block) EXCEPT !.free_flag = BLOCK_FREE,
                                                     !.next_free = head,
                                                     !.prev_free = NULL]),
       !.inst.blocks[fl][sl] = block,
       !.inst.fl_bitmap = @ \cup {fl},
       !.inst.sl_bitmap[fl] = @ \cup {sl}]

insert_free_block_in(T, block, m) ==
    IF ~InMatrix(m)
    THEN [T EXCEPT !.undefined = TRUE]
    ELSE insert_free_block_at(T, block, m.fl, m.sl, T.inst.blocks[m.fl][m.sl])

insert_free_block(T, block) ==
    IF T.undefined THEN T
    ELSE insert_free_block_in(T, block, mapping_insert(HeaderAt(T.heap, block).size))

\* the bitmaps of remove_free_block, after the block left its list
remove_free_block_bits(T, fl, sl) ==
    IF T.inst.blocks[fl][sl] # NULL THEN T
    ELSE [T EXCEPT
            !.inst.sl_bitmap[fl] = @ \ {sl},
            !.inst.fl_bitmap = IF T.inst.sl_bitmap[fl] \ {sl} = {} THEN @ \ {fl} ELSE @]

\* the list links of remove_free_block
remove_free_block_at(T, block, fl, sl, prev, next) ==
    [T EXCEPT
       !.heap = IF next # NULL
                THEN Poke(IF prev # NULL
                          THEN Poke(T.heap, prev, [HeaderAt(T.heap, prev) EXCEPT !.next_free = next])
                          ELSE T.heap,
                          next,
                          [HeaderAt(T.heap, next) EXCEPT !.prev_free = prev])
                ELSE IF prev # NULL
                     THEN Poke(T.heap, prev, [HeaderAt(T.heap, prev) EXCEPT !.next_free = next])
                     ELSE T.heap,
       !.inst.blocks[fl][sl] = IF prev # NULL THEN @ ELSE next]

remove_free_block_in(T, block, m) ==
    IF ~InMatrix(m)
    THEN [T EXCEPT !.undefined = TRUE]
    ELSE remove_free_block_bits(
             remove_free_block_at(T, block, m.fl, m.sl,
                                  HeaderAt(T.heap, block).prev_free,
                                  HeaderAt(T.heap, block).next_free),
             m.fl, m.sl)

remove_free_block(T, block) ==
    IF T.undefined THEN T
    ELSE IF block = NULL THEN [T EXCEPT !.undefined = TRUE]
    ELSE remove_free_block_in(T, block, mapping_insert(HeaderAt(T.heap, block).size))

\* "remaining_size > sizeof(block_header_t)" on size_t: a difference that
\* wrapped around is above every header size
SplitsOff(remaining_size) == remaining_size < 0 \/ remaining_size > HEADER_SIZE

\* the header of the block after remaining, when there is one in the pool
block_split_next(heap, remaining, next_phys) ==
    IF next_phys < heap_end
    THEN Poke(heap, next_phys, [HeaderAt(heap, next_phys) EXCEPT !.phys_prev = remaining])
    ELSE heap

\* the branch of block_split that cuts the block: the headers before
\* insert_free_block(remaining)
block_split_cut(T, block, size, remaining, remaining_size) ==
    [T EXCEPT
       !.heap = [block_split_next(
                     Poke(T.heap, remaining,
                          [HeaderAt(T.heap, remaining) EXCEPT !.size = remaining_size,
                                                              !.free_flag = BLOCK_FREE,
                                                              !.phys_prev = block]),
                     remaining, remaining + remaining_size)
                 EXCEPT ![block].size = size]]

\* "block->free_flag = BLOCK_USED"
block_split_used(T, block) ==
    IF T.undefined THEN T
    ELSE [T EXCEPT !.heap[block].free_flag = BLOCK_USED]

block_split_sized(T, block, size, remaining_size) ==
    IF SplitsOff(remaining_size)
    THEN block_split_used(
             insert_free_block(
                 block_split_cut(T, block, size, block + size, remaining_size),
                 block + size),
             block)
    ELSE block_split_used(T, block)

block_split(T, block, size) ==
    IF T.undefined THEN T
    ELSE block_split_sized(T, block, size, HeaderAt(T.heap, block).size - size)

\* "block->size += ..." and the phys_prev of the block that follows
block_grow(T, block, size) ==
    [T EXCEPT
       !.heap = IF block + size < heap_end
                THEN Poke([T.heap EXCEPT ![block].size = size], block + size,
                          [HeaderAt(T.heap, block + size) EXCEPT !.phys_prev = block])
                ELSE [T.heap EXCEPT ![block].size = size]]

\* block eats other, which left its free list in T
block_eat(T, block, other) ==
    IF T.undefined THEN T
    ELSE block_grow(T, block, T.heap[block].size + T.heap[other].size)

\* the merge to the right of block_merge
block_merge_right(T, block, next_phys) ==
    IF next_phys >= heap_end THEN T
    ELSE IF HeaderAt(T.heap, next_phys).free_flag = UNINIT
         THEN [T EXCEPT !.undefined = TRUE]
         ELSE IF HeaderAt(T.heap, next_phys).free_flag # BLOCK_FREE THEN T
              ELSE block_eat(remove_free_block(T, next_phys), block, next_phys)

\* the merge to the left of block_merge, and the block it returns
block_merge_left(T, block, prev_phys) ==
    IF T.undefined \/ prev_phys = NULL
    THEN [tlsf |-> T, block |-> block]
    ELSE IF HeaderAt(T.heap, prev_phys).free_flag # BLOCK_FREE
         THEN [tlsf |-> T, block |-> block]
         ELSE [tlsf |-> block_eat(remove_free_block(T, prev_phys), prev_phys, block),
               block |-> prev_phys]

block_merge(T, block) ==
    block_merge_left(block_merge_right(T, block, block + HeaderAt(T.heap, block).size),
                     block, HeaderAt(T.heap, block).phys_prev)

tlsf_init_inst ==
    [fl_bitmap |-> {},
     sl_bitmap |-> [fl \in FlIndexes |-> {}],
     blocks |-> [fl \in FlIndexes |-> [sl \in SlIndexes |-> NULL]]]

\* tlsf_init(memory_pool, MEM_SIZE)
tlsf_init ==
    insert_free_block(
        [inst |-> tlsf_init_inst,
         heap |-> (heap_start :> [BlankHeader EXCEPT !.size = TLSF_MEM_SIZE,
                                                     !.free_flag = BLOCK_FREE,
                                                     !.phys_prev = NULL]),
         undefined |-> FALSE],
        heap_start)

InitT ==
    /\ tlsf_inst = tlsf_init.inst
    /\ tlsf_heap = tlsf_init.heap
    /\ tlsf_undefined = tlsf_init.undefined
    /\ tlsf_live = {}
    /\ tlsf_calls = 0

\* "size + sizeof(block_header_t)", at least 32
AdjustSize(size) ==
    IF size + HEADER_SIZE < 32 THEN 32 ELSE size + HEADER_SIZE

\* "~0U << n" as the set of its 1 bits
OnesFrom(n) == {b \in 0 .. 31 : b >= n}

\* the block tlsf_malloc finds when it looks from list [fl][sl] on: a list
\* of the same first level from sl on, else the lowest list of the lowest
\* higher first level, else NULL
tlsf_search_from(inst, fl, sl) ==
    IF inst.sl_bitmap[fl] \cap OnesFrom(sl) # {}
    THEN inst.blocks[fl][tlsf_ffs(inst.sl_bitmap[fl] \cap OnesFrom(sl))]
    ELSE IF inst.fl_bitmap \cap OnesFrom(fl + 1) = {}
         THEN NULL
         ELSE inst.blocks[tlsf_ffs(inst.fl_bitmap \cap OnesFrom(fl + 1))]
                         [tlsf_ffs(inst.sl_bitmap[tlsf_ffs(inst.fl_bitmap \cap OnesFrom(fl + 1))])]

\* the search of tlsf_malloc for a block of adjust_size bytes
tlsf_search(inst, adjust_size) ==
    tlsf_search_from(inst, mapping_insert(adjust_size).fl, mapping_insert(adjust_size).sl)

\* tlsf_malloc once the search found block
tlsf_malloc_take(T, block, adjust_size) ==
    IF block = NULL
    THEN [tlsf |-> T, ret |-> NULL]
    ELSE [tlsf |-> block_split(remove_free_block(T, block), block, adjust_size),
          ret |-> block + HEADER_SIZE]

tlsf_malloc(T, size) ==
    IF T.undefined
    THEN [tlsf |-> T, ret |-> NULL]
    ELSE tlsf_malloc_take(T, tlsf_search(T.inst, AdjustSize(size)), AdjustSize(size))

\* the end of tlsf_free: the merged block goes back to the matrix
tlsf_free_insert(r) == insert_free_block(r.tlsf, r.block)

tlsf_free(T, ptr) ==
    IF ptr = NULL \/ T.undefined THEN T
    ELSE tlsf_free_insert(
             block_merge([T EXCEPT !.heap[ptr - HEADER_SIZE].free_flag = BLOCK_FREE],
                         ptr - HEADER_SIZE))

TlsfInstall(T) ==
    /\ tlsf_inst' = T.inst
    /\ tlsf_heap' = T.heap
    /\ tlsf_undefined' = T.undefined

\* the caller keeps the pointer tlsf_malloc returned
TlsfKeep(r) ==
    /\ TlsfInstall(r.tlsf)
    /\ tlsf_live' = IF r.ret # NULL THEN tlsf_live \cup {r.ret} ELSE tlsf_live

TlsfMalloc(size) ==
    /\ UNCHANGED notT
    /\ Cardinality(tlsf_live) < TlsfMaxLive
    /\ tlsf_calls < TlsfMaxCalls
    /\ tlsf_calls' = tlsf_calls + 1
    /\ TlsfKeep(tlsf_malloc(TlsfState, size))

\* tlsf_free of a block the caller holds
TlsfFree(ptr) ==
    /\ UNCHANGED notT
    /\ ptr \in tlsf_live
    /\ tlsf_calls < TlsfMaxCalls
    /\ tlsf_calls' = tlsf_calls + 1
    /\ TlsfInstall(tlsf_free(TlsfState, ptr))
    /\ tlsf_live' = tlsf_live \ {ptr}

NextT ==
    \/ \E size \in TlsfSizes : TlsfMalloc(size)
    \/ \E ptr \in tlsf_live : TlsfFree(ptr)

\* ------------------------------------------------------------ two calls of __free_pages at once
\* __free_pages (src/unnamed/part_001) called by two threads on the two halves
\* of one buddy pair, with no lock.  Each read and each write of a page
\* descriptor or of a list head is one step; the locals of a call (pfn, order,
\* prev) are its own.  fr_prev is NIL for &buddy_free_area[order] and p for
\* &MEM_MAP[p].next.

Threads == {1, 2}

\* the orders the caller allocates before the two frees: the first two blocks
\* are the buddy pair, the rest stays allocated
FrScenarios == {<<0, 0>>, <<0, 0, 0>>, <<0, 0, 1>>, <<1, 1>>}

FrState == [map |-> fr_map, area |-> fr_area]

FrPages(pfn, order) == pfn .. (pfn + (2 ^ order) - 1)

InitR ==
    /\ fr_map = buddy_init_map
    /\ fr_area = buddy_init_area
    /\ fr_pc = [t \in Threads |-> "idle"]
    /\ fr_pfn = [t \in Threads |-> 0]
    /\ fr_order = [t \in Threads |-> 0]
    /\ fr_prev = [t \in Threads |-> NIL]
    /\ fr_tmp = [t \in Threads |-> NIL]
    /\ fr_atomic = FALSE
    /\ fr_held = {}

\* alloc_pages for each order of orders in turn
RECURSIVE FrAllocs(_, _)
FrAllocs(S, orders) ==
    IF orders = <<>> THEN [S |-> S, pages |-> <<>>]
    ELSE LET r == alloc_pages(S, Head(orders))
             rest == FrAllocs(r.S, Tail(orders))
         IN  [S |-> rest.S, pages |-> <<r.page>> \o rest.pages]

\* the caller has allocated the blocks r.pages and hands the first two to
\* two calls of __free_pages
FrBegin(r, orders, atomic) ==
    /\ fr_map' = r.S.map
    /\ fr_area' = r.S.area
    /\ fr_pfn' = [t \in Threads |-> r.pages[t]]
    /\ fr_order' = [t \in Threads |-> orders[t]]
    /\ fr_held' = UNION {FrPages(r.pages[i], orders[i]) : i \in 3 .. Len(orders)}
    /\ fr_pc' = [t \in Threads |-> "test_flags"]
    /\ fr_atomic' = atomic
    /\ UNCHANGED <<fr_prev, fr_tmp>>

FrStart(orders, atomic) ==
    /\ UNCHANGED notR
    /\ \A t \in Threads : fr_pc[t] = "idle"
    /\ FrBegin(FrAllocs(FrState, orders), orders, atomic)

FrBuddy(t) == BitXor(fr_pfn[t], 2 ^ fr_order[t])

\* *prev
FrDeref(t) == IF fr_prev[t] = NIL THEN fr_area[fr_order[t]] ELSE fr_map[fr_prev[t]].next

FrGoto(t, pc) == fr_pc' = [fr_pc EXCEPT ![t] = pc]

\* "pfn = combined_pfn; order++;" and back to the test of the loop
FrMerged(t) ==
    /\ fr_pfn' = [fr_pfn EXCEPT ![t] = BitAnd(fr_pfn[t], FrBuddy(t))]
    /\ fr_order' = [fr_order EXCEPT ![t] = fr_order[t] + 1]
    /\ FrGoto(t, "test_flags")

\* "while (order < MAX_ORDER - 1)" and "if (!(buddy->flags & PG_free) ||
\* buddy->order != order) break;": the read of flags, then the read of order
FrTest(t) ==
    /\ UNCHANGED notR
    /\ ~fr_atomic
    /\ UNCHANGED <<fr_map, fr_area, fr_pfn, fr_order, fr_tmp, fr_atomic, fr_held>>
    /\ \/ /\ fr_pc[t] = "test_flags"
          /\ IF fr_order[t] < MAX_ORDER - 1 /\ HasFlag(fr_map[FrBuddy(t)].flags, PG_free)
             THEN FrGoto(t, "test_order")
             ELSE FrGoto(t, "write_flags")
          /\ UNCHANGED fr_prev
       \/ /\ fr_pc[t] = "test_order"
          /\ IF fr_map[FrBuddy(t)].order = fr_order[t]
             THEN FrGoto(t, "scan")
             ELSE FrGoto(t, "write_flags")
          /\ fr_prev' = [fr_prev EXCEPT ![t] = NIL]

\* "while (*prev && *prev != buddy) prev = &(*prev)->next;
\*  if (*prev) *prev = buddy->next;", one read or write at a time
FrUnlink(t) ==
    /\ UNCHANGED notR
    /\ ~fr_atomic
    /\ UNCHANGED <<fr_atomic, fr_held>>
    /\ \/ /\ fr_pc[t] = "scan"
          /\ IF FrDeref(t) # NIL /\ FrDeref(t) # FrBuddy(t)
             THEN /\ fr_prev' = [fr_prev EXCEPT ![t] = FrDeref(t)]
                  /\ UNCHANGED fr_pc
             ELSE /\ FrGoto(t, "test_prev")
                  /\ UNCHANGED fr_prev
          /\ UNCHANGED <<fr_map, fr_area, fr_pfn, fr_order, fr_tmp>>
       \/ /\ fr_pc[t] = "test_prev"
          /\ IF FrDeref(t) # NIL
             THEN FrGoto(t, "read_next") /\ UNCHANGED <<fr_pfn, fr_order>>
             ELSE FrMerged(t)
          /\ UNCHANGED <<fr_map, fr_area, fr_prev, fr_tmp>>
       \/ /\ fr_pc[t] = "read_next"
          /\ fr_tmp' = [fr_tmp EXCEPT ![t] = fr_map[FrBuddy(t)].next]
          /\ FrGoto(t, "write_prev")
          /\ UNCHANGED <<fr_map, fr_area, fr_pfn, fr_order, fr_prev>>
       \/ /\ fr_pc[t] = "write_prev"
          /\ IF fr_prev[t] = NIL
             THEN /\ fr_area' = [fr_area EXCEPT ![fr_order[t]] = fr_tmp[t]]
                  /\ UNCHANGED fr_map
             ELSE /\ fr_map' = [fr_map EXCEPT ![fr_prev[t]].next = fr_tmp[t]]
                  /\ UNCHANGED fr_area
          /\ FrMerged(t)
          /\ UNCHANGED <<fr_prev, fr_tmp>>

\* "page->flags = PG_free; page->order = order;
\*  page->next = buddy_free_area[order]; buddy_free_area[order] = page;"
FrInsert(t) ==
    /\ UNCHANGED notR
    /\ ~fr_atomic
    /\ UNCHANGED <<fr_pfn, fr_order, fr_prev, fr_atomic, fr_held>>
    /\ \/ /\ fr_pc[t] = "write_flags"
          /\ fr_map' = [fr_map EXCEPT ![fr_pfn[t]].flags = PG_free]
          /\ FrGoto(t, "write_order")
          /\ UNCHANGED <<fr_area, fr_tmp>>
       \/ /\ fr_pc[t] = "write_order"
          /\ fr_map' = [fr_map EXCEPT ![fr_pfn[t]].order = fr_order[t],
                                      ![fr_pfn[t]].slab_cache = OVERLAID]
          /\ FrGoto(t, "read_head")
          /\ UNCHANGED <<fr_area, fr_tmp>>
       \/ /\ fr_pc[t] = "read_head"
          /\ fr_tmp' = [fr_tmp EXCEPT ![t] = fr_area[fr_order[t]]]
          /\ FrGoto(t, "write_next")
          /\ UNCHANGED <<fr_map, fr_area>>
       \/ /\ fr_pc[t] = "write_next"
          /\ fr_map' = [fr_map EXCEPT ![fr_pfn[t]].next = fr_tmp[t]]
          /\ FrGoto(t, "write_head")
          /\ UNCHANGED <<fr_area, fr_tmp>>
       \/ /\ fr_pc[t] = "write_head"
          /\ fr_area' = [fr_area EXCEPT ![fr_order[t]] = fr_pfn[t]]
          /\ FrGoto(t, "done")
          /\ UNCHANGED <<fr_map, fr_tmp>>

\* the whole call as one step
FrAtomic(t) ==
    /\ UNCHANGED notR
    /\ fr_atomic
    /\ fr_pc[t] = "test_flags"
    /\ fr_map' = free_pages(FrState, fr_pfn[t], fr_order[t]).map
    /\ fr_area' = free_pages(FrState, fr_pfn[t], fr_order[t]).area
    /\ FrGoto(t, "done")
    /\ UNCHANGED <<fr_pfn, fr_order, fr_prev, fr_tmp, fr_atomic, fr_held>>

NextR ==
    \/ \E orders \in FrScenarios, atomic \in BOOLEAN : FrStart(orders, atomic)
    \/ \E t \in Threads : FrTest(t)
    \/ \E t \in Threads : FrUnlink(t)
    \/ \E t \in Threads : FrInsert(t)
    \/ \E t \in Threads : FrAtomic(t)

\* ------------------------------------------------------------ the cooperative scheduler
\* thread_task, simulate_hardware_events and the loop of main (the C program in
\* src/Makefile), one statement per step.  A thread and its hardware word are
\* named "A" and "B"; ctx.addr is the name of the word the context points to.

SIGNAL_READY == 255

ThreadNames == {"A", "B"}

\* "*(ctx->addr) = n" of case current_step
TaskValue_samestep(current_step) == current_step

TaskValue(current_step) == current_step + 1

\* "ctx->current_step = n" of the cases 0 .. 3, "ctx->is_finished = 1" of case 4
TaskNext(ctx) ==
    IF ctx.current_step < 4
    THEN [ctx EXCEPT !.current_step = ctx.current_step + 1]
    ELSE [ctx EXCEPT !.is_finished = 1]

\* one call of thread_task on a context whose word holds word
thread_task(ctx, word) ==
    IF ctx.is_finished # 0 THEN [ctx |-> ctx, word |-> word]
    ELSE IF ctx.current_step \in 0 .. 4
         THEN IF word = SIGNAL_READY
              THEN [ctx |-> TaskNext(ctx), word |-> TaskValue(ctx.current_step)]
              ELSE [ctx |-> ctx, word |-> word]
    ELSE [ctx |-> [ctx EXCEPT !.is_finished = 1], word |-> word]

\* main up to "System Start."
InitX ==
    /\ HARDWARE = [w \in ThreadNames |-> SIGNAL_READY]
    /\ t_ctx = [t \in ThreadNames |->
                   [name |-> t, current_step |-> 0, addr |-> t, is_finished |-> 0]]
    /\ sch_pc = "call"
    /\ sch_cur = "A"
    /\ sch_in = [ctx |-> [name |-> "A", current_step |-> 0, addr |-> "A", is_finished |-> 0],
                 word |-> SIGNAL_READY]
    /\ sch_out = <<>>

SchGoto(pc) == sch_pc' = pc

\* the statement of main after the call of thread_task returned
SchReturn ==
    IF sch_cur = "A"
    THEN sch_cur' = "B" /\ SchGoto("call")
    ELSE sch_cur' = "A" /\ SchGoto("hw_test")

\* thread_task(&t_a) and thread_task(&t_b), from the call to the return
ThreadTask ==
    /\ UNCHANGED notX
    /\ \/ /\ sch_pc = "call"
          /\ sch_in' = [ctx |-> t_ctx[sch_cur], word |-> HARDWARE[t_ctx[sch_cur].addr]]
          /\ SchGoto("entry")
          /\ UNCHANGED <<HARDWARE, t_ctx, sch_cur, sch_out>>
       \/ /\ sch_pc = "entry"
          /\ IF t_ctx[sch_cur].is_finished # 0 THEN SchGoto("return") ELSE SchGoto("switch")
          /\ UNCHANGED <<HARDWARE, t_ctx, sch_cur, sch_in, sch_out>>
       \/ /\ sch_pc = "switch"
          /\ IF t_ctx[sch_cur].current_step \in 0 .. 4
             THEN SchGoto("test") /\ UNCHANGED t_ctx
             ELSE /\ t_ctx' = [t_ctx EXCEPT ![sch_cur].is_finished = 1]
                  /\ SchGoto("return")
          /\ UNCHANGED <<HARDWARE, sch_cur, sch_in, sch_out>>
       \/ /\ sch_pc = "test"
          /\ IF HARDWARE[t_ctx[sch_cur].addr] = SIGNAL_READY
             THEN SchGoto("write")
             ELSE SchGoto("return")
          /\ UNCHANGED <<HARDWARE, t_ctx, sch_cur, sch_in, sch_out>>
       \/ /\ sch_pc = "write"
          /\ HARDWARE' = [HARDWARE EXCEPT ![t_ctx[sch_cur].addr] =
                              TaskValue(t_ctx[sch_cur].current_step)]
          /\ SchGoto("print")
          /\ UNCHANGED <<t_ctx, sch_cur, sch_in, sch_out>>
       \/ /\ sch_pc = "print"
          /\ sch_out' = Append(sch_out, <<t_ctx[sch_cur].name, "Wrote",
                                          TaskValue(t_ctx[sch_cur].current_step)>>)
          /\ SchGoto("advance")
          /\ UNCHANGED <<HARDWARE, t_ctx, sch_cur, sch_in>>
       \/ /\ sch_pc = "advance"
          /\ t_ctx' = [t_ctx EXCEPT ![sch_cur] = TaskNext(t_ctx[sch_cur])]
          /\ SchGoto("return")
          /\ UNCHANGED <<HARDWARE, sch_cur, sch_in, sch_out>>
       \/ /\ sch_pc = "return"
          /\ SchReturn
          /\ UNCHANGED <<HARDWARE, t_ctx, sch_in, sch_out>>

\* the statement after the test or the reset of word sch_cur
SchNextWord ==
    IF sch_cur = "A"
    THEN sch_cur' = "B" /\ SchGoto("hw_test")
    ELSE sch_cur' = "A" /\ SchGoto("check")

\* simulate_hardware_events: a word that holds 1 .. 5 is set to SIGNAL_READY
SimulateHardwareEvents ==
    /\ UNCHANGED notX
    /\ UNCHANGED <<t_ctx, sch_in>>
    /\ \/ /\ sch_pc = "hw_test"
          /\ IF HARDWARE[sch_cur] > 0 /\ HARDWARE[sch_cur] <= 5
                /\ HARDWARE[sch_cur] # SIGNAL_READY
             THEN SchGoto("hw_print") /\ UNCHANGED sch_cur
             ELSE SchNextWord
          /\ UNCHANGED <<HARDWARE, sch_out>>
       \/ /\ sch_pc = "hw_print"
          /\ sch_out' = Append(sch_out, <<sch_cur, "Ack", HARDWARE[sch_cur]>>)
          /\ SchGoto("hw_write")
          /\ UNCHANGED <<HARDWARE, sch_cur>>
       \/ /\ sch_pc = "hw_write"
          /\ HARDWARE' = [HARDWARE EXCEPT ![sch_cur] = SIGNAL_READY]
          /\ SchNextWord
          /\ UNCHANGED sch_out

\* "if (t_a.is_finished && t_b.is_finished) break;"
MainCheck ==
    /\ UNCHANGED notX
    /\ sch_pc = "check"
    /\ IF t_ctx["A"].is_finished # 0 /\ t_ctx["B"].is_finished # 0
       THEN SchGoto("exit")
       ELSE SchGoto("call")
    /\ UNCHANGED <<HARDWARE, t_ctx, sch_cur, sch_in, sch_out>>

NextX ==
    \/ ThreadTask
    \/ SimulateHardwareEvents
    \/ MainCheck

Init == InitA /\ InitB /\ InitK /\ InitS /\ InitM /\ InitT /\ InitR /\ InitX

SpecSched == Init /\ [][NextX]_vars

\* main runs on: the statement it is at is executed eventually
SpecSchedFair == SpecSched /\ WF_vars(NextX)

SpecRace == Init /\ [][NextR]_vars

SpecTlsf == Init /\ [][NextT]_vars

SpecBitmap == Init /\ [][NextM]_vars

SpecSlub == Init /\ [][NextS]_vars

\* the calls of kmalloc; a call that was entered takes its next step
\* eventually, the caller need not call
SpecKmalloc ==
    /\ Init
    /\ [][NextK]_vars
    /\ WF_vars(KmallocOrderTest)
    /\ WF_vars(KmallocOrderUndefined)
    /\ WF_vars(KmallocAllocPages)

SpecBuddy == Init /\ [][NextB]_vars

Next ==
    \/ \E size \in Sizes : Kmalloc(size)
    \/ \E b \in live : Kfree(b)

Spec == Init /\ [][Next]_vars

\* in a run of either program the buddy-only allocator is followed for
\* EitherCalls calls
EitherCalls == 8

\* a run of one of the two programs with a buddy free routine: the calls of
\* the combined allocator, or the calls of the buddy-only allocator
NextEither ==
    \/ (calls = 0 /\ Next)
    \/ (ops = 0 /\ calls < EitherCalls /\ NextB)

SpecEither == Init /\ [][NextEither]_vars

\* ------------------------------------------------------------ reading the lists
\* the pages met by following next from head, at most fuel of them
RECURSIVE Chain(_, _, _)
Chain(map, head, fuel) ==
    IF head = NIL \/ fuel = 0 THEN <<>>
    ELSE <<head>> \o Chain(map, map[head].next, fuel - 1)

\* a list as the code walks it; a walk longer than NUM_PAGES shows a cycle
FreeList(S, o) == Chain(S.map, S.area[o], NUM_PAGES + 1)
PartialList(S, c) == Chain(S.map, S.caches[c].partial, NUM_PAGES + 1)

Range(seq) == {seq[i] : i \in 1 .. Len(seq)}
NoDuplicates(seq) == \A i, j \in 1 .. Len(seq) : i # j => seq[i] # seq[j]

\* the blocks of list o, each with the order its descriptor records
FreeBlocks(S, o) == {<<p, S.map[p].order>> : p \in Range(FreeList(S, o))}

\* all free lists, one after the other
RECURSIVE AllFree(_, _)
AllFree(S, o) == IF o >= MAX_ORDER THEN <<>> ELSE FreeList(S, o) \o AllFree(S, o + 1)

\* the in-band freelist of a page, at most fuel slots of it
RECURSIVE Slots(_, _, _)
Slots(m, obj, fuel) ==
    IF obj = NULL \/ fuel = 0 \/ obj \notin DOMAIN m THEN <<>>
    ELSE <<obj>> \o Slots(m, m[obj], fuel - 1)

\* ------------------------------------------------------------ claims

\* C1: a second kfree of a buddy block that was freed once, with no
\* allocation in between, is reported as an error and changes no free list,
\* page descriptor or partial list.
C1_DoubleFreeBuddyRejected ==
    \A b \in freed :
        b.cache = 0 =>
            LET r == kfree(State, b.addr)
            IN  r.err = "double_free" /\ r.S = State

\* C2: every address kmalloc returned lies inside the arena, and the offset of
\* a block the buddy allocator served at order o is a multiple of
\* (1 << o) * PAGE_SIZE.
C2_ReturnedInArenaAndAligned ==
    \A b \in live :
        /\ b.addr >= PHYS_MEM_START
        /\ b.addr < PHYS_MEM_START + MEM_SIZE
        /\ b.cache = 0 => (b.addr - PHYS_MEM_START) % ((2 ^ b.order) * PAGE_SIZE) = 0

C2_Witness ==
    \E b \in live : b.cache = 0 /\ b.order = 1 /\ b.addr > PHYS_MEM_START

\* C3: every descriptor linked in buddy_free_area[o] is flagged Free with
\* recorded order o, and no descriptor is linked twice, in one list or in two.
C3_FreeListsWellFormed ==
    /\ \A o \in Orders :
          \A p \in Range(FreeList(State, o)) :
              MEM_MAP[p].flags = PG_free /\ MEM_MAP[p].order = o
    /\ NoDuplicates(AllFree(State, 0))

C3_Witness ==
    /\ freed # {}
    /\ Len(FreeList(State, 0)) >= 2

\* C4: after a free operation completes, no two blocks of one free list are
\* buddies of each other: every possible merge has been performed.
C4_NoUnmergedBuddies ==
    freed # {} =>
        \A o \in 0 .. (MAX_ORDER - 2) :
            \A p \in Range(FreeList(State, o)) :
                BitXor(p, 2 ^ o) \notin Range(FreeList(State, o))

C4_Witness ==
    /\ freed # {}
    /\ live = {}
    /\ \A p \in PFNs : ~HasFlag(MEM_MAP[p].flags, PG_slab)
    /\ FreeList(State, MAX_ORDER - 1) = <<0>>
    /\ Cardinality(freed) >= 2

\* C7: wherever alloc_pages(o) succeeds, freeing the block it returned at
\* order o right away gives every free list the blocks it held before.
C7_AllocFreeRoundTrip ==
    \A o \in Orders :
        LET r == alloc_pages(State, o)
        IN  r.page # NIL =>
                LET T == free_pages(r.S, r.page, o)
                IN  \A k \in Orders : FreeBlocks(T, k) = FreeBlocks(State, k)

C7_Witness ==
    /\ FirstFit(buddy_free_area, 0) = 1
    /\ buddy_free_area[MAX_ORDER - 1] = NIL
    /\ live # {}
    /\ alloc_pages(State, 0).page # NIL

\* C8: every page in a cache's partial list is SlabOwned by that cache, has
\* fewer active objects than the page holds and a non-empty freelist, so
\* kmem_cache_alloc never finds a NULL freelist on a partial page.
C8_PartialListsWellFormed ==
    \A c \in Caches :
        /\ \A p \in Range(PartialList(State, c)) :
              /\ MEM_MAP[p].flags = PG_slab
              /\ MEM_MAP[p].slab_cache = c
              /\ MEM_MAP[p].active_objects < PAGE_SIZE \div slab_caches[c].obj_size
              /\ MEM_MAP[p].freelist # NULL
        /\ kmem_cache_alloc(State, c).err # "null_freelist"

C8_Witness ==
    \E c \in Caches :
        /\ Len(PartialList(State, c)) >= 2
        /\ freed # {}

\* C9: kfree of a slab object that was already freed is reported as an error
\* and changes neither the page's freelist or active_objects nor any list.
C9_DoubleFreeSlabRejected ==
    \A b \in freed :
        b.cache # 0 =>
            LET r == kfree(State, b.addr)
            IN  r.err = "double_free" /\ r.S = State

\* C10: on a fresh cache, three allocations p1, p2, p3, then kfree(p1), then
\* one more allocation of the class returns p1.
FreshCache(c) ==
    /\ slab_caches[c].partial = NIL
    /\ \A p \in PFNs : ~(HasFlag(MEM_MAP[p].flags, PG_slab) /\ MEM_MAP[p].slab_cache = c)

C10_SlabLifo ==
    \A c \in Caches :
        FreshCache(c) =>
            LET size == slab_sizes[c]
                a1 == kmalloc(State, size)
                a2 == kmalloc(a1.S, size)
                a3 == kmalloc(a2.S, size)
                f == kfree(a3.S, a1.ret)
                a4 == kmalloc(f.S, size)
            IN  (a1.ret # NULL /\ a2.ret # NULL /\ a3.ret # NULL) => a4.ret = a1.ret

C10_Witness ==
    /\ ops > 0
    /\ buddy_free_area[MAX_ORDER - 1] = NIL
    /\ \E c \in Caches :
          /\ FreshCache(c)
          /\ PAGE_SIZE \div slab_sizes[c] = 2
          /\ LET size == slab_sizes[c]
                 a1 == kmalloc(State, size)
                 a2 == kmalloc(a1.S, size)
                 a3 == kmalloc(a2.S, size)
             IN  /\ a1.ret # NULL /\ a2.ret # NULL /\ a3.ret # NULL
                 /\ virt_to_page(a3.ret) # virt_to_page(a1.ret)

\* C6: when an order-K block consists of 2^K allocated order-0 pages, freeing
\* those pages in any permutation leaves one free block for the region and no
\* smaller free block inside it.
RECURSIVE Perms(_)
Perms(set) ==
    IF set = {} THEN {<<>>}
    ELSE UNION {{<<x>> \o q : q \in Perms(set \ {x})} : x \in set}

RECURSIVE FreeAll(_, _)
FreeAll(S, ptrs) ==
    IF ptrs = <<>> THEN S ELSE FreeAll(kfree(S, Head(ptrs)).S, Tail(ptrs))

RegionPages(r, K) == r .. (r + (2 ^ K) - 1)
Regions == {<<r, K>> \in PFNs \X Orders : r % (2 ^ K) = 0}

\* the region is an order-K block split completely into allocated order-0 pages
SplitCompletely(r, K) ==
    \A p \in RegionPages(r, K) :
        [addr |-> page_address(p), cache |-> 0, order |-> 0] \in live

\* the free-list entries that cover the region, and those that lie inside it
Covering(S, r, K) ==
    {<<p, o>> \in PFNs \X Orders :
        p \in Range(FreeList(S, o)) /\ p <= r /\ r + (2 ^ K) <= p + (2 ^ o)}
Inside(S, r, K) ==
    {<<p, o>> \in PFNs \X Orders :
        p \in Range(FreeList(S, o)) /\ o < K /\ p \in RegionPages(r, K)}

\* the region's buddy is a free block of order K
BuddyIsFree(S, r, K) ==
    K < MAX_ORDER - 1 /\ BitXor(r, 2 ^ K) \in Range(FreeList(S, K))

\* the claim as stated: the one free block is at order K
C6_OneBlockAtOrderK ==
    \A rk \in Regions :
        SplitCompletely(rk[1], rk[2]) =>
            \A q \in Perms({page_address(p) : p \in RegionPages(rk[1], rk[2])}) :
                LET T == FreeAll(State, q)
                IN  /\ Covering(T, rk[1], rk[2]) = {<<rk[1], rk[2]>>}
                    /\ Inside(T, rk[1], rk[2]) = {}

\* as amended: one free block covers the region; it is the order-K block
\* itself unless the region's buddy was free, and then it is a larger block
C6_OneBlockCoversRegion ==
    \A rk \in Regions :
        SplitCompletely(rk[1], rk[2]) =>
            \A q \in Perms({page_address(p) : p \in RegionPages(rk[1], rk[2])}) :
                LET T == FreeAll(State, q)
                IN  /\ Cardinality(Covering(T, rk[1], rk[2])) = 1
                    /\ Inside(T, rk[1], rk[2]) = {}
                    /\ BuddyIsFree(State, rk[1], rk[2])
                          <=> (Covering(T, rk[1], rk[2]) # {<<rk[1], rk[2]>>})

\* a whole order-2 block and an order-1 block with a busy buddy, both split
\* completely
C6_Witness ==
    \/ SplitCompletely(0, 2)
    \/ SplitCompletely(2, 1) /\ ~BuddyIsFree(State, 2, 1) /\ freed # {}

\* C11: for every size class, when count = PAGE_SIZE / obj_size allocations
\* fill one slab page and all count objects are freed, the next alloc_pages(0)
\* returns that page.
RECURSIVE AllocN(_, _, _)
AllocN(S, size, n) ==
    IF n = 0 THEN [S |-> S, objs |-> <<>>]
    ELSE LET a == kmalloc(S, size)
             rest == AllocN(a.S, size, n - 1)
         IN  [S |-> rest.S, objs |-> <<a.ret>> \o rest.objs]

Reverse(seq) == [i \in 1 .. Len(seq) |-> seq[Len(seq) + 1 - i]]

\* the objects fill one page: none is NULL and all lie on the page of the first
FillsOnePage(objs) ==
    \A i \in 1 .. Len(objs) :
        objs[i] # NULL /\ virt_to_page(objs[i]) = virt_to_page(objs[1])

C11_SlabPageRecycled ==
    \A c \in Caches :
        LET a == AllocN(State, slab_sizes[c], PAGE_SIZE \div slab_sizes[c])
        IN  FillsOnePage(a.objs) =>
                \A q \in {a.objs, Reverse(a.objs)} :
                    alloc_pages(FreeAll(a.S, q), 0).page = virt_to_page(a.objs[1])

\* a slab page other than PFN 0 is filled while another block is in use
C11_Witness ==
    /\ live # {}
    /\ freed # {}
    /\ \E c \in Caches :
          LET a == AllocN(State, slab_sizes[c], PAGE_SIZE \div slab_sizes[c])
          IN  FillsOnePage(a.objs) /\ virt_to_page(a.objs[1]) > 0

\* C12: for every size from 1 to the largest class, kmalloc(size) is served
\* by the cache of the smallest class >= size, and the object it returns is a
\* slot of a page owned by exactly that cache.
SmallestClass(size) ==
    CHOOSE c \in Caches :
        /\ slab_sizes[c] >= size
        /\ \A d \in Caches : slab_sizes[d] >= size => slab_sizes[c] <= slab_sizes[d]

\* obj is one of the PAGE_SIZE / obj_size slots of a page that cache c owns
SlotOfCache(S, obj, c) ==
    LET page == virt_to_page(obj)
    IN  /\ page # NIL
        /\ S.map[page].flags = PG_slab
        /\ S.map[page].slab_cache = c
        /\ (obj - page_address(page)) % slab_sizes[c] = 0
        /\ obj + slab_sizes[c] <= page_address(page) + PAGE_SIZE

C12_SmallestClassServes ==
    \A size \in 1 .. slab_sizes[SLAB_INDEX_COUNT] :
        LET r == kmalloc(State, size)
        IN  /\ r.cache = SmallestClass(size)
            /\ r.ret # NULL => SlotOfCache(r.S, r.ret, SmallestClass(size))

\* objects of both classes are in use and a request between the two classes
\* is served
C12_Witness ==
    /\ \E b \in live : b.cache = 1
    /\ \E b \in live : b.cache = SLAB_INDEX_COUNT /\ ~SlotOfCache(State, b.addr, 1)
    /\ kmalloc(State, slab_sizes[1] + 1).ret # NULL

\* C13: for every size above the largest class, kmalloc(size) asks the buddy
\* allocator for the least order o with PAGE_SIZE * 2^o >= size and returns
\* the base address of a block whose first page is PG_buddy at order o; it
\* returns NULL and changes nothing whenever o >= MAX_ORDER.
RECURSIVE LeastOrder(_, _)
LeastOrder(size, o) == IF PAGE_SIZE * (2 ^ o) >= size THEN o ELSE LeastOrder(size, o + 1)

\* the outcome r of kmalloc(size) is what the claim describes
BuddyServed(size, r) ==
    LET o == LeastOrder(size, 0)
    IN  /\ r.err \in {"none", "oom"}
        /\ r.cache = 0 /\ r.order = o
        /\ r.S.caches = State.caches
        /\ o >= MAX_ORDER => (r.ret = NULL /\ r.S = State)
        /\ r.ret = NULL => r.S = State
        /\ r.ret # NULL =>
              /\ virt_to_page(r.ret) # NIL
              /\ r.ret = page_address(virt_to_page(r.ret))
              /\ r.S.map[virt_to_page(r.ret)].flags = PG_buddy
              /\ r.S.map[virt_to_page(r.ret)].order = o

\* as stated: every size of the size type above the largest class
C13_BuddyRouting ==
    \A size \in (slab_sizes[SLAB_INDEX_COUNT] + 1) .. ((2 ^ SIZE_BITS) - 1) :
        BuddyServed(size, kmalloc(State, size))

\* C14: alloc_pages(order), order >= 0, fails exactly when order >= MAX_ORDER
\* or every free list of the orders order .. MAX_ORDER-1 is empty, and a
\* failed call leaves the page descriptors and the free lists unchanged.
NoBlockFrom(S, order) ==
    \A k \in Orders : k >= order => FreeList(S, k) = <<>>

C14_AllocFailsExactlyWhenExhausted ==
    \A order \in 0 .. (MAX_ORDER + 1) :
        LET r == alloc_pages(State, order)
        IN  /\ (r.page = NIL) <=> (order >= MAX_ORDER \/ NoBlockFrom(State, order))
            /\ r.page = NIL => r.S = State
            /\ r.page # NIL => r.S.map[r.page].flags = PG_buddy

\* order 1 is exhausted while an order-0 block is left, after some free
C14_Witness ==
    /\ freed # {}
    /\ alloc_pages(State, 1).page = NIL
    /\ alloc_pages(State, 0).page # NIL
    /\ alloc_pages(alloc_pages(State, 0).S, 0).page = NIL

\* C15: kfree(NULL) and kfree of an address outside the arena leave every page
\* descriptor, free list and partial list unchanged; the address outside the
\* arena is reported as invalid and resolves to no page descriptor.
OutsideArena ==
    (1 .. (PHYS_MEM_START - 1))
        \cup ((PHYS_MEM_START + MEM_SIZE) .. (PHYS_MEM_START + MEM_SIZE + PAGE_SIZE))

C15_NullAndOutsideAreNoOps ==
    /\ kfree(State, NULL).S = State
    /\ kfree(State, NULL).err = "none"
    /\ \A ptr \in OutsideArena :
          /\ virt_to_page(ptr) = NIL
          /\ kfree(State, ptr).S = State
          /\ kfree(State, ptr).err = "invalid_address"

\* blocks are in use and others were freed; the last address of the arena is
\* a block's, the one after it is not
C15_Witness ==
    /\ live # {}
    /\ freed # {}
    /\ kfree(State, PHYS_MEM_START + MEM_SIZE).err = "invalid_address"
    /\ \E b \in live : virt_to_page(b.addr) = NUM_PAGES - 1

\* C16: between operations a page descriptor is flagged PG_buddy only if it
\* is the first page of a block a caller holds; the page of a freed block is
\* flagged PG_free, also when the block was merged into one at a lower PFN.
C16_BuddyFlagOnlyOnHeldBlocks ==
    /\ \A p \in PFNs :
          HasFlag(MEM_MAP[p].flags, PG_buddy) =>
              \E b \in live : b.cache = 0 /\ virt_to_page(b.addr) = p
    /\ \A b \in freed :
          b.cache = 0 => MEM_MAP[virt_to_page(b.addr)].flags = PG_free

\* C17: immediately after initialization every page descriptor is flagged
\* PG_free, the free list of order MAX_ORDER-1 holds exactly PFN 0 with
\* recorded order MAX_ORDER-1, every other free list is empty and every
\* cache's partial list is empty.
C17_InitialState ==
    ops = 0 =>
        /\ \A p \in PFNs : MEM_MAP[p].flags = PG_free
        /\ FreeList(State, MAX_ORDER - 1) = <<0>>
        /\ MEM_MAP[0].order = MAX_ORDER - 1
        /\ \A o \in Orders : o # MAX_ORDER - 1 => FreeList(State, o) = <<>>
        /\ \A c \in Caches : PartialList(State, c) = <<>>

\* C18: every call of kmalloc terminates, for every size of the size type
\* (the shifted page size computed modulo 2^SIZE_BITS): a call that entered
\* the order loop returns.
C18_KmallocTerminates == (k_pc = "order_loop") ~> (k_pc = "idle")

\* C19: in the SLUB demo, after kfree(p) the next kmalloc whose size maps to
\* the size class of p returns p.
ReusedAtOnce(b) ==
    \A size \in SlubSizes :
        kmalloc_index(size) = b.index =>
            slub_kmalloc(slub_kfree(SlubState, b.addr), size).obj = b.addr

\* as stated: for every object the caller holds
C19_SlubLifo ==
    ~slub_undefined => \A b \in slub_live : ReusedAtOnce(b)

\* as amended: for every object that lies in the cpu_slab page of its cache
C19_SlubLifoOnCpuSlab ==
    ~slub_undefined =>
        \A b \in slub_live :
            kmalloc_caches[b.index].cpu_slab = slub_virt_to_page(b.addr) => ReusedAtOnce(b)

\* two objects of one class lie in the cpu_slab page of their cache and the
\* caller wrote into one of them
C19_Witness ==
    /\ ~slub_undefined
    /\ \E b, c \in slub_live :
          /\ b # c /\ b.index = c.index
          /\ kmalloc_caches[b.index].cpu_slab = slub_virt_to_page(b.addr)
          /\ slub_virt_to_page(c.addr) = slub_virt_to_page(b.addr)
          /\ slub_mem[b.addr] = USER_DATA

\* C20: in the SLUB demo kmalloc(size) delegates to the cache whose object
\* size is the smallest power of two >= size among kmalloc-8 .. kmalloc-1024,
\* so the object returned is at least size bytes large, for every size.
C20_SlubSmallestPowerOfTwo ==
    /\ \A size \in 1 .. (2 * (2 ^ KMALLOC_SHIFT_HIGH)) :
          LET i == kmalloc_index(size)
          IN  /\ kmalloc_caches[i].size >= size
              /\ \A j \in SlubCaches :
                    kmalloc_caches[j].size >= size
                        => kmalloc_caches[i].size <= kmalloc_caches[j].size
    /\ ~slub_undefined =>
          \A size \in SlubSizes :
              LET r == slub_kmalloc(SlubState, size)
              IN  r.obj # NULL =>
                      r.S.map[slub_virt_to_page(r.obj)].slab_cache = kmalloc_index(size)

\* C21: in the bitmap allocator bitmap_alloc(n), 1 <= n <= 64, returns the
\* address of the lowest index i with pages i .. i+n-1 all free and sets
\* exactly those n bits; it returns NULL and leaves the bitmap unchanged
\* exactly when there is no run of n free pages.
FreeRunAt(bitmap, i, n) == \A q \in bitmap : q < i \/ q >= i + n
FreeRuns(bitmap, n) == {i \in 0 .. (PAGE_COUNT - n) : FreeRunAt(bitmap, i, n)}
Lowest(set) == CHOOSE i \in set : \A j \in set : i <= j

C21_BitmapFirstFit ==
    \A n \in 1 .. 64 :
        LET r == bitmap_alloc(g_bitmap, n)
            runs == FreeRuns(g_bitmap, n)
        IN  IF runs = {}
            THEN r.ret = NULL /\ r.bitmap = g_bitmap
            ELSE /\ r.ret = g_phys_base + (Lowest(runs) * BITMAP_PAGE_SIZE)
                 /\ r.bitmap = g_bitmap \cup (Lowest(runs) .. (Lowest(runs) + n - 1))

\* the hole of main: pages 0 and 3 are taken, the freed pages 1 and 2 are
\* the lowest run of two, and exactly the pages 4 .. 63 fit a request of 60
C21_Witness ==
    /\ g_bitmap = {0, 3}
    /\ bm_calls = 4
    /\ bitmap_alloc(g_bitmap, 2).ret = g_phys_base + BITMAP_PAGE_SIZE
    /\ bitmap_alloc(bitmap_alloc(g_bitmap, 2).bitmap, 60).ret
           = g_phys_base + (4 * BITMAP_PAGE_SIZE)
    /\ bitmap_alloc(bitmap_alloc(g_bitmap, 2).bitmap, 61).ret = NULL

\* ------------------------------------------------------------ the TLSF pool
\* the pool is one free block: the header at heap_start spans the pool and
\* it is the only block in the matrix
OneFreeBlock ==
    /\ heap_start \in DOMAIN tlsf_heap
    /\ tlsf_heap[heap_start].size = TLSF_MEM_SIZE
    /\ tlsf_heap[heap_start].free_flag = BLOCK_FREE
    /\ tlsf_heap[heap_start].phys_prev = NULL
    /\ tlsf_heap[heap_start].next_free = NULL
    /\ tlsf_heap[heap_start].prev_free = NULL
    /\ \A fl \in FlIndexes : \A sl \in SlIndexes :
           tlsf_inst.blocks[fl][sl] =
               IF <<fl, sl>> = <<mapping_insert(TLSF_MEM_SIZE).fl, mapping_insert(TLSF_MEM_SIZE).sl>>
               THEN heap_start ELSE NULL

\* C22: once every block obtained from tlsf_malloc has been passed to
\* tlsf_free, the pool is one free block at heap_start of the size of the
\* pool with phys_prev NULL, the only block linked in the matrix.
C22_AllFreedIsOneBlock ==
    (tlsf_live = {}) => (~tlsf_undefined /\ OneFreeBlock)

\* the same for the runs in which no call left defined behaviour
C22_DefinedRuns ==
    (tlsf_live = {} /\ ~tlsf_undefined) => OneFreeBlock

\* ------------------------------------------------------------ the pages of the arena
\* the pages of the block of order o that starts at page p
BlockPages(p, o) == p .. ((p + (2 ^ o)) - 1)

\* the entries <<o, i>> of the free lists whose block covers page q
FreeCover(S, q) ==
    {oi \in Orders \X (1 .. (NUM_PAGES + 1)) :
        /\ oi[2] <= Len(FreeList(S, oi[1]))
        /\ q \in BlockPages(FreeList(S, oi[1])[oi[2]], oi[1])}

\* the buddy blocks the caller holds that cover page q
HeldCover(q) ==
    {b \in live : b.cache = 0 /\ q \in BlockPages(virt_to_page(b.addr), b.order)}

\* the caches that own page q as a slab page
SlabCover(S, q) ==
    {c \in Caches : HasFlag(S.map[q].flags, PG_slab) /\ S.map[q].slab_cache = c}

\* C24: every page of the arena is covered by exactly one of: a block linked
\* in a buddy free list, a buddy block handed out to a caller, a slab page
\* of exactly one cache.
C24_EveryPageCoveredOnce ==
    \A q \in PFNs :
        Cardinality(FreeCover(State, q)) + Cardinality(HeldCover(q))
            + Cardinality(SlabCover(State, q)) = 1

\* a free block, a held buddy block and a slab page side by side, after a
\* slab page went back to the buddy system
C24_Witness ==
    /\ \E b \in live : b.cache = 0
    /\ \E b \in live : b.cache # 0
    /\ \E q \in PFNs : FreeCover(State, q) # {}
    /\ \E b \in freed : b.cache # 0 /\ ~HasFlag(MEM_MAP[virt_to_page(b.addr)].flags, PG_slab)

\* ------------------------------------------------------------ the regions handed out
\* the number of bytes of the region the caller got: the object size of the
\* slab class, or the pages of the buddy block
RegionSize(cache, order) ==
    IF cache # 0 THEN slab_sizes[cache] ELSE PAGE_SIZE * (2 ^ order)

\* [a, a + m) and [b, b + n) have no byte in common
Disjoint(a, m, b, n) == a + m <= b \/ b + n <= a

\* [addr, addr + n) has no byte in common with a block of a buddy free list
OffFreeLists(S, addr, n) ==
    \A o \in Orders : \A p \in Range(FreeList(S, o)) :
        Disjoint(addr, n, page_address(p), PAGE_SIZE * (2 ^ o))

\* the region a successful kmalloc r hands out lies apart from every region
\* the caller holds
ApartFromLive(r) ==
    r.ret # NULL =>
        \A b \in live : Disjoint(r.ret, RegionSize(r.cache, r.order),
                                 b.addr, RegionSize(b.cache, b.order))

\* C23: the regions handed out and not yet freed are pairwise disjoint, and
\* none has a byte in common with a block linked in a buddy free list; the
\* next kmalloc hands out a region apart from all of them.
C23_LiveRegionsDisjoint ==
    /\ \A a \in live : \A b \in live \ {a} :
           Disjoint(a.addr, RegionSize(a.cache, a.order), b.addr, RegionSize(b.cache, b.order))
    /\ \A b \in live : OffFreeLists(State, b.addr, RegionSize(b.cache, b.order))
    /\ \A size \in Sizes : ApartFromLive(kmalloc(State, size))

\* two objects of one slab page, an object of the other class and a buddy
\* block are held, after a block was freed and its place was given out again
C23_Witness ==
    /\ ops = MaxOps
    /\ \E a \in live : \E b \in live \ {a} :
           a.cache = 1 /\ b.cache = 1 /\ virt_to_page(a.addr) = virt_to_page(b.addr)
    /\ \E b \in live : b.cache = 2
    /\ \E b \in live : b.cache = 0
    /\ \E q \in PFNs : FreeCover(State, q) # {}

\* ------------------------------------------------------------ emptied slab pages
\* the objects the caller holds in page q
LiveIn(q) == {b \in live : b.cache # 0 /\ virt_to_page(b.addr) = q}

\* S is the state after the kfree that emptied slab page q: q is in no
\* partial list, is no slab page, is covered by a free block, and
\* alloc_pages(0) succeeds
Released(S, q) ==
    /\ \A c \in Caches : q \notin Range(PartialList(S, c))
    /\ ~HasFlag(S.map[q].flags, PG_slab)
    /\ FreeCover(S, q) # {}
    /\ alloc_pages(S, 0).page # NIL

\* C25: no slab page has active_objects = 0, and the kfree of the last
\* object held in a slab page takes the page out of the partial list,
\* wherever it sits, and gives it back to the buddy system in the same call.
C25_EmptiedPageReleased ==
    /\ \A q \in PFNs : HasFlag(MEM_MAP[q].flags, PG_slab) => MEM_MAP[q].active_objects > 0
    /\ \A b \in live :
           (b.cache # 0 /\ MEM_MAP[virt_to_page(b.addr)].active_objects = 1)
               => Released(kfree(State, b.addr).S, virt_to_page(b.addr))

\* the last object of a slab page is held and the page is not the head of
\* its partial list
C25_Witness ==
    \E b \in live :
        /\ b.cache # 0
        /\ MEM_MAP[virt_to_page(b.addr)].active_objects = 1
        /\ Len(PartialList(State, b.cache)) = 2
        /\ PartialList(State, b.cache)[2] = virt_to_page(b.addr)

\* ------------------------------------------------------------ partial lists and their pages
\* how often x occurs in seq
Occurrences(seq, x) == Cardinality({i \in 1 .. Len(seq) : seq[i] = x})

\* the slab pages: flagged PG_slab
SlabPages == {q \in PFNs : HasFlag(MEM_MAP[q].flags, PG_slab)}

\* the number of objects a page of cache c holds
MaxObjs(c) == PAGE_SIZE \div slab_caches[c].obj_size

\* the first page of a list, NIL for the empty list
Front(seq) == IF seq = <<>> THEN NIL ELSE seq[1]

\* slab page q has no free slot
IsFull(q) == MEM_MAP[q].active_objects = MaxObjs(MEM_MAP[q].slab_cache)

\* C26: a slab page with a free slot is linked exactly once in the partial
\* list of its own cache and in no other, a full page is linked in no partial
\* list, and the kfree of an object of a full page puts the page at the front
\* of its cache's partial list.
C26_PartialListMembership ==
    /\ \A q \in SlabPages : \A c \in Caches :
           Occurrences(PartialList(State, c), q) =
               IF c = MEM_MAP[q].slab_cache /\ ~IsFull(q) THEN 1 ELSE 0
    /\ \A b \in live :
           (b.cache # 0 /\ IsFull(virt_to_page(b.addr)) /\ MaxObjs(b.cache) > 1)
               => Front(PartialList(kfree(State, b.addr).S, b.cache)) = virt_to_page(b.addr)

\* a full page of a cache whose partial list holds another page
C26_Witness ==
    \E b \in live :
        /\ b.cache # 0
        /\ IsFull(virt_to_page(b.addr))
        /\ virt_to_page(b.addr) \notin Range(PartialList(State, b.cache))
        /\ PartialList(State, b.cache) # <<>>
        /\ Front(PartialList(kfree(State, b.addr).S, b.cache)) = virt_to_page(b.addr)
        /\ Len(PartialList(kfree(State, b.addr).S, b.cache)) = 2

\* ------------------------------------------------------------ the in-band freelists
\* the slot addresses of slab page q of cache c
PageSlots(q, c) ==
    {page_address(q) + (i * slab_caches[c].obj_size) : i \in 0 .. (MaxObjs(c) - 1)}

\* the freelist of slab page q as the code walks it; a walk of more than
\* MaxObjs slots shows a cycle
FreeSlots(q) == Slots(mem, MEM_MAP[q].freelist, MaxObjs(MEM_MAP[q].slab_cache) + 1)

\* the walk over seq ended at a NULL link
EndsInNull(seq) == seq = <<>> \/ (seq[Len(seq)] \in DOMAIN mem /\ mem[seq[Len(seq)]] = NULL)

\* the freelist fl of slab page q of cache c is sound
SoundFreelist(q, c, fl) ==
    /\ Len(fl) <= MaxObjs(c)
    /\ (MEM_MAP[q].freelist = NULL) = (fl = <<>>)
    /\ EndsInNull(fl)
    /\ NoDuplicates(fl)
    /\ Range(fl) \subseteq PageSlots(q, c)
    /\ Range(fl) = PageSlots(q, c) \ {b.addr : b \in live}
    /\ MEM_MAP[q].active_objects = MaxObjs(c) - Len(fl)

\* C27: the in-band freelist of every slab page is acyclic, visits distinct
\* slot addresses base + i * obj_size of that page, holds exactly the slots
\* that are not allocated, and active_objects is the number of slots of the
\* page minus the length of the freelist.
C27_FreelistSound ==
    \A q \in SlabPages : SoundFreelist(q, MEM_MAP[q].slab_cache, FreeSlots(q))

\* a slab page whose freelist was reordered by frees: a higher slot links to
\* a lower one, while an object of the page is held
C27_Witness ==
    \E q \in SlabPages :
        /\ Len(FreeSlots(q)) >= 2
        /\ FreeSlots(q)[1] > FreeSlots(q)[2]
        /\ LiveIn(q) # {}

\* ------------------------------------------------------------ a cache that cannot grow
\* no block is linked in a buddy free list
NoFreeBlock(S) == \A o \in Orders : S.area[o] = NIL

\* kmalloc r failed and left the state S as it was
FailsUnchanged(S, r) == r.ret = NULL /\ r.err = "oom" /\ r.S = S

\* once the state S after a kfree has a block in a buddy free list, kmalloc
\* of class c succeeds
SucceedsOnceFreed(S, c) ==
    ~NoFreeBlock(S) => kmalloc(S, slab_sizes[c]).ret # NULL

\* C28: when the partial list of a cache is empty and the buddy free lists
\* are empty, kmalloc of that class fails and changes nothing, whatever free
\* slots the pages of other caches have; after a kfree that gives a page
\* back to the buddy system, kmalloc of the class succeeds.
C28_GrowFailureLeavesState ==
    \A c \in Caches :
        (slab_caches[c].partial = NIL /\ NoFreeBlock(State)) =>
            /\ FailsUnchanged(State, kmalloc(State, slab_sizes[c]))
            /\ \A b \in live : SucceedsOnceFreed(kfree(State, b.addr).S, c)

\* the arena is used up, a cache has no partial page while the other cache
\* has a page with free slots, and the caller holds a buddy block
C28_Witness ==
    \E c \in Caches : \E d \in Caches \ {c} :
        /\ slab_caches[c].partial = NIL
        /\ NoFreeBlock(State)
        /\ slab_caches[d].partial # NIL
        /\ \E b \in live : b.cache = 0 /\ ~NoFreeBlock(kfree(State, b.addr).S)
        /\ \E b \in live : b.cache # 0 /\ NoFreeBlock(kfree(State, b.addr).S)

\* ------------------------------------------------------------ what alloc_pages changes
\* the lowest order from order on whose free list is not empty, MAX_ORDER
\* when all of them are empty
LowestList(S, order) ==
    IF \A k \in order .. (MAX_ORDER - 1) : S.area[k] = NIL
    THEN MAX_ORDER
    ELSE CHOOSE k \in order .. (MAX_ORDER - 1) :
             S.area[k] # NIL /\ \A j \in order .. (k - 1) : S.area[j] = NIL

\* the list of order j after alloc_pages(order) took block p from list k
ListAfter(S, j, order, k, p) ==
    IF j = k THEN Tail(FreeList(S, j))
    ELSE IF j >= order /\ j < k THEN <<p + (2 ^ j)>> \o FreeList(S, j)
    ELSE FreeList(S, j)

\* r is alloc_pages(order) in state S, which took block p from list k
TakesHeadAndSplits(S, order, k, p, r) ==
    /\ r.page = p
    /\ r.S.map[p].flags = PG_buddy
    /\ r.S.map[p].order = order
    /\ \A j \in Orders : FreeList(r.S, j) = ListAfter(S, j, order, k, p)
    /\ \A j \in order .. (k - 1) :
           r.S.map[p + (2 ^ j)].flags = PG_free /\ r.S.map[p + (2 ^ j)].order = j
    /\ \A q \in PFNs \ ({p} \cup {p + (2 ^ j) : j \in order .. (k - 1)}) :
           r.S.map[q] = S.map[q]
    /\ r.S.caches = S.caches
    /\ r.S.mem = S.mem

\* alloc_pages(order) in state S, where k is the lowest non-empty list
AllocPagesEffect(S, order, k, r) ==
    IF k >= MAX_ORDER
    THEN r.page = NIL
    ELSE TakesHeadAndSplits(S, order, k, S.area[k], r)

\* C29: a successful alloc_pages(order) takes the head p of the lowest
\* non-empty list k >= order, returns p marked BuddyAllocated at the order
\* asked for, puts one Free block p + 2^j of recorded order j at the front of
\* list j for each j in [order, k), and changes no other list or descriptor.
C29_AllocPagesEffect ==
    \A order \in Orders :
        AllocPagesEffect(State, order, LowestList(State, order), alloc_pages(State, order))

\* after a free: an order-0 request is served by splitting the order-1
\* block at a PFN above 0 while blocks are held
C29_Witness ==
    /\ freed # {}
    /\ live # {}
    /\ LowestList(State, 0) = 1
    /\ buddy_free_area[1] > 0
    /\ alloc_pages(State, 0).page = buddy_free_area[1]
    /\ FreeList(alloc_pages(State, 0).S, 0) = <<buddy_free_area[1] + 1>>

\* ------------------------------------------------------------ the word memset clears
\* the object kmalloc r returned starts with a zero word
LeadingWordZero(r) == r.ret # NULL => r.S.mem[r.ret] = 0

\* C30: every object a successful slab allocation returns has its leading
\* pointer-sized word equal to zero when it is returned, for a slot of a new
\* page and for a slot that was freed before.
C30_ReturnedObjectZeroed ==
    \A c \in Caches : LeadingWordZero(kmalloc(State, slab_sizes[c]))

\* the next object of a class is a slot the caller freed, and its link word
\* holds the address of the next free slot
C30_Witness ==
    \E b \in freed :
        /\ b.cache # 0
        /\ kmalloc(State, slab_sizes[b.cache]).ret = b.addr
        /\ mem[b.addr] # 0
        /\ mem[b.addr] # UNINIT

\* ------------------------------------------------------------ the block tlsf_malloc takes
\* the block found for adjust_size bytes, if any, has at least that size
FitsRequest(heap, block, adjust_size) ==
    block # NULL => HeaderAt(heap, block).size >= adjust_size

\* C33: every block tlsf_malloc takes from the matrix has a size of at least
\* the adjusted request, so block_split never subtracts a size above
\* block->size and the payload lies inside the block.
C33_TakenBlockFits ==
    ~tlsf_undefined =>
        \A size \in TlsfSizes :
            FitsRequest(tlsf_heap, tlsf_search(tlsf_inst, AdjustSize(size)), AdjustSize(size))


\* ------------------------------------------------------------ the bitmap and the outstanding allocations
\* the page indices of the allocation h = [ptr, num_pages] the caller holds
HeldPages(h) ==
    LET index == (h.ptr - g_phys_base) \div BITMAP_PAGE_SIZE
    IN  index .. (index + h.num_pages - 1)

\* C34: in the bitmap allocator, after any sequence of bitmap_alloc calls and
\* of bitmap_free calls on a returned pointer with its page count, the set
\* bits are exactly the disjoint union of the page ranges of the outstanding
\* allocations: no page is handed out twice, and the bitmap is 0 once every
\* allocation is freed.
C34_BitmapIsOutstandingPages ==
    /\ g_bitmap = UNION {HeldPages(h) : h \in bm_held}
    /\ \A h1, h2 \in bm_held : h1 # h2 => HeldPages(h1) \cap HeldPages(h2) = {}
    /\ \A h \in bm_held : Cardinality(HeldPages(h)) = h.num_pages
    /\ bm_held = {} => g_bitmap = {}

\* three allocations were made, the middle one is freed again: the pages of
\* the two that are left are set and the hole between them is clear
C34_Witness ==
    /\ bm_calls = 4
    /\ Cardinality(bm_held) = 2
    /\ g_bitmap = {0, 1, 4}
    /\ \E h \in bm_held : h.num_pages = 2 /\ HeldPages(h) = {0, 1}
    /\ \E h \in bm_held : h.num_pages = 1 /\ HeldPages(h) = {4}


\* ------------------------------------------------------------ the buddy that passes the merge test
\* the merge loop of __free_pages from (pfn, order) on: wherever the buddy
\* passes the test (PG_free and the order of the loop), it is linked in the
\* free list of that order
RECURSIVE MergeFinds(_, _, _, _)
MergeFinds(map, area, pfn, order) ==
    IF order < MAX_ORDER - 1
    THEN LET buddy_pfn == BitXor(pfn, 2 ^ order)
         IN  IF ~HasFlag(map[buddy_pfn].flags, PG_free) \/ map[buddy_pfn].order # order
             THEN TRUE
             ELSE /\ buddy_pfn \in Range(Chain(map, area[order], NUM_PAGES + 1))
                  /\ MergeFinds(ListUnlink(map, area[order], buddy_pfn).map,
                                [area EXCEPT ![order] = ListUnlink(map, area[order], buddy_pfn).head],
                                BitAnd(pfn, buddy_pfn), order + 1)
    ELSE TRUE

\* the same for the merge loop of buddy_free
RECURSIVE MergeLoopFinds(_, _, _)
MergeLoopFinds(G, page_idx, order) ==
    IF order < MAX_ORDER_B
    THEN LET buddy_idx == BitXor(page_idx, 2 ^ order)
         IN  IF buddy_idx >= g_total_pages THEN TRUE
             ELSE IF ~G.desc[buddy_idx].is_free \/ G.desc[buddy_idx].order # order
             THEN TRUE
             ELSE /\ buddy_idx \in Range(G.area[order])
                  /\ MergeLoopFinds([G EXCEPT !.area[order] = RemoveFirst(@, buddy_idx)],
                                    IF buddy_idx < page_idx THEN buddy_idx ELSE page_idx,
                                    order + 1)
    ELSE TRUE

\* the (pfn, order) pairs __free_pages can be called with next: a buddy block
\* the caller holds, with the order kfree reads from its descriptor, or the
\* slab page whose last object the caller holds, at order 0
FreeCalls ==
    {<<virt_to_page(b.addr), MEM_MAP[virt_to_page(b.addr)].order>> :
        b \in {x \in live : x.cache = 0}}
    \cup {<<virt_to_page(b.addr), 0>> :
        b \in {x \in live : x.cache # 0 /\ MEM_MAP[virt_to_page(x.addr)].active_objects = 1}}

\* descriptors that an earlier merge left flagged free although no list holds them
StaleFree == {p \in PFNs : /\ HasFlag(MEM_MAP[p].flags, PG_free)
                           /\ MEM_MAP[p].order \in Orders
                           /\ p \notin Range(FreeList(State, MEM_MAP[p].order))}
StaleFreeB == {i \in 0 .. (g_total_pages - 1) :
                  g_page_desc[i].is_free /\ i \notin Range(g_free_area[g_page_desc[i].order])}

\* C31: in any run of valid allocations and frees, whenever the buddy free
\* routine finds the buddy flagged free with the order of the loop, that
\* descriptor is linked in the free list of that order: flags left over from
\* earlier merges never make a block outside the list look mergeable, and the
\* list removal always finds the buddy.
C31_MergeableBuddyIsListed ==
    /\ \A c \in FreeCalls : MergeFinds(MEM_MAP, buddy_free_area, c[1], c[2])
    /\ \A ptr \in held :
           MergeLoopFinds(GState, (ptr - g_heap_base) \div MIN_PAGE_SIZE,
                          g_page_desc[(ptr - g_heap_base) \div MIN_PAGE_SIZE].order)

\* a descriptor keeps the free flag of an earlier merge while the caller holds
\* a block whose buddy passes the test, in the combined allocator
C31_Witness ==
    /\ StaleFree # {}
    /\ \E c \in FreeCalls :
           /\ c[2] < MAX_ORDER - 1
           /\ HasFlag(MEM_MAP[BitXor(c[1], 2 ^ c[2])].flags, PG_free)
           /\ MEM_MAP[BitXor(c[1], 2 ^ c[2])].order = c[2]

\* the same in the buddy-only allocator
C31_WitnessB ==
    /\ StaleFreeB # {}
    /\ \E ptr \in held :
           LET page_idx == (ptr - g_heap_base) \div MIN_PAGE_SIZE
               order == g_page_desc[page_idx].order
           IN  /\ order < MAX_ORDER_B
               /\ g_page_desc[BitXor(page_idx, 2 ^ order)].is_free
               /\ g_page_desc[BitXor(page_idx, 2 ^ order)].order = order


\* ------------------------------------------------------------ the free lists after two frees of a buddy pair
FrList(o) == Chain(fr_map, fr_area[o], NUM_PAGES + 1)

\* the listed blocks that cover page q, each as <<order, position in the list>>
FrCover(q) ==
    {c \in Orders \X (1 .. (NUM_PAGES + 1)) :
        c[2] <= Len(FrList(c[1])) /\ q \in FrPages(FrList(c[1])[c[2]], c[1])}

\* the pages of the blocks whose call has not run yet
FrPending == UNION {FrPages(fr_pfn[t], fr_order[t]) : t \in {x \in Threads : fr_pc[x] # "done"}}

\* two free buddies sit side by side in one list
FrUnmerged ==
    \E o \in 0 .. (MAX_ORDER - 2) : \E p \in Range(FrList(o)) :
        BitXor(p, 2 ^ o) \in Range(FrList(o))

\* a page is covered by two listed blocks, or a list runs in a cycle
FrLinkedTwice ==
    \/ \E o \in Orders : Len(FrList(o)) > NUM_PAGES
    \/ \E q \in PFNs : Cardinality(FrCover(q)) > 1

\* a page that nobody holds is covered by no listed block
FrLost == \E q \in PFNs \ (fr_held \cup FrPending) : FrCover(q) = {}

\* a page that is still allocated is covered by a listed block
FrLeaked == \E q \in fr_held \cup FrPending : FrCover(q) # {}

FrBothDone == \A t \in Threads : fr_pc[t] = "done"

\* C32: when each of the two __free_pages calls on the halves of a buddy pair
\* runs as one step, the free lists stay sound (the pair is merged, no block
\* is linked twice, none is lost); interleaved read by read and write by
\* write, with no lock, the calls reach a state where that is broken.
C32_AtomicFreesKeepLists ==
    fr_atomic => ~(FrUnmerged \/ FrLinkedTwice \/ FrLost \/ FrLeaked)

\* both interleaved calls have returned and a free-list invariant is broken
C32_Witness ==
    /\ ~fr_atomic
    /\ FrBothDone
    /\ (FrUnmerged \/ FrLinkedTwice \/ FrLost)

\* the three ways of breaking it, each after both interleaved calls returned
C32_PairLeftUnmerged == ~fr_atomic /\ FrBothDone /\ FrUnmerged
C32_BlockLinkedTwice == ~fr_atomic /\ FrBothDone /\ FrLinkedTwice
C32_BlockLost == ~fr_atomic /\ FrBothDone /\ FrLost

\* both calls ran as one step each and the pair is one block again
C32_AtomicDone == fr_atomic /\ FrBothDone


\* ------------------------------------------------------------ the scheduler's run
\* the contexts and words thread_task can be called with
SchContexts == [name : ThreadNames, current_step : 0 .. 5, addr : ThreadNames,
                is_finished : {0, 1}]
SchWords == (0 .. 6) \cup {SIGNAL_READY}

IsWroteBy(t, line) == line[1] = t /\ line[2] = "Wrote"

\* the values thread t reported as written, in the order of the output
SchWrote(t) == SelectSeq(sch_out, LAMBDA line : IsWroteBy(t, line))

\* a call that finds the thread finished or the word not READY changes
\* neither the context nor the word, so the next call is at the same step;
\* the step advances on READY only
TaskYields ==
    \A ctx \in SchContexts : \A word \in SchWords :
        /\ (ctx.is_finished # 0 \/ (word # SIGNAL_READY /\ ctx.current_step \in 0 .. 4))
               => /\ thread_task(ctx, word) = [ctx |-> ctx, word |-> word]
                  /\ thread_task(thread_task(ctx, word).ctx, SIGNAL_READY)
                         = thread_task(ctx, SIGNAL_READY)
        /\ thread_task(ctx, word).ctx.current_step # ctx.current_step
               => word = SIGNAL_READY

\* the call that is about to return did what thread_task does on the context
\* and the word it was entered with
CallMatches ==
    sch_pc = "return" =>
        [ctx |-> t_ctx[sch_cur], word |-> HARDWARE[t_ctx[sch_cur].addr]]
            = thread_task(sch_in.ctx, sch_in.word)

\* thread t has written 1, 2, ... in this order, five values at most
WroteInOrder(t) ==
    /\ Len(SchWrote(t)) <= 5
    /\ \A i \in 1 .. Len(SchWrote(t)) : SchWrote(t)[i][3] = i

SchSafe ==
    /\ TaskYields
    /\ CallMatches
    /\ \A t \in ThreadNames : WroteInOrder(t) /\ t_ctx[t].addr = t
    /\ sch_pc = "exit" => \A t \in ThreadNames : Len(SchWrote(t)) = 5

\* a word changes by its own thread, from READY to the next value of the
\* thread, or by the hardware, to READY; a context changes in a call of its
\* own thread that was entered with the word READY
SchStep ==
    /\ \A w \in ThreadNames :
           HARDWARE'[w] # HARDWARE[w] =>
               \/ /\ sch_pc = "write" /\ sch_cur = w
                  /\ HARDWARE[w] = SIGNAL_READY
                  /\ HARDWARE'[w] = Len(SchWrote(w)) + 1
               \/ sch_pc = "hw_write" /\ HARDWARE'[w] = SIGNAL_READY
    /\ \A t \in ThreadNames :
           t_ctx'[t] # t_ctx[t] =>
               /\ sch_cur = t
               /\ sch_in.word = SIGNAL_READY
               /\ HARDWARE[t] = Len(SchWrote(t))
               /\ t_ctx'[t] = TaskNext(t_ctx[t])

SchExited == sch_pc = "exit" /\ \A t \in ThreadNames : t_ctx[t].is_finished # 0

\* C35: started with both words READY, the main loop of the scheduler
\* eventually exits with both threads finished; on the way a thread advances
\* only in a call that found its own word READY, writes 1, 2, 3, 4, 5 in this
\* order to its own word and never to the other, and a call that finds the
\* word not READY or the thread finished changes nothing and is resumed at
\* the same step.
C35_SchedulerRunsToExit ==
    /\ []SchSafe
    /\ [][SchStep]_vars
    /\ <>SchExited

\* main has left the loop after each thread reported its five writes
C35_Witness ==
    /\ SchExited
    /\ \A t \in ThreadNames : Len(SchWrote(t)) = 5 /\ t_ctx[t].current_step = 4
    /\ Len(sch_out) = 20
====
